---------------------------- MODULE Spec2Model ----------------------------
(***************************************************************************)
(* Host-side controller of the qlaser ZCU instrument (package qlaser_zcu). *)
(*                                                                         *)
(* The model follows qlaser_fpga.py: one QlaserFPGA session talking to the *)
(* instrument over a serial link.  Every frame the session writes to the   *)
(* link is recorded, byte for byte, as the decimal text followed by the    *)
(* command byte.  The instrument side is the two memories the frames       *)
(* address: the pulse-definition RAM and the waveform RAM.                 *)
(*                                                                         *)
(* Representation.  TLC integers are 32-bit signed, while the link carries *)
(* 48-bit numbers and the registers are 32-bit unsigned.  A natural number *)
(* that may exceed 2^31-1 is therefore kept as three base-2^16 limbs,      *)
(* least significant first: <<l0, l1, l2>> stands for                      *)
(* l0 + l1*2^16 + l2*2^32.  A Python str / bytes value is a sequence of    *)
(* one-character strings.  A Python float is a dyadic rational             *)
(* [num |-> n, dexp |-> k] standing for n / 2^k (every float is one).      *)
(***************************************************************************)
EXTENDS Integers, Sequences, FiniteSets, TLC

(***************************************************************************)
(* Program constants (constants.py)                                        *)
(***************************************************************************)
C_MAX_CHANNELS == 32
C_BITS_ADDR_WAVE == 16
C_BITS_GAIN_FACTOR == 16
BIT_FRAC == 8
BIT_FRAC_GAIN == C_BITS_GAIN_FACTOR - 1
PULSE_START_MIN == 5

FPGA_VERSION == <<"3", "A", "C", "1", "0", "0", "0", "1">>
FIRMWARE_VERSION == <<"1", ".", "0", ".", "k">>

CMD_VERSIONS == "v"
CMD_ECHO == "e"
CMD_PULSE_CHSEL == "c"
CMD_RD_WAVE == "W"
CMD_RD_PDEFN == "w"
CMD_PDEFN_WR == "A1"
CMD_WAVERAM_WR == "B1"
CMD_DC_WR == "D1"
CMD_CH_ERR == "90"
CMD_ERR_MSG == <<"*", "E">>

(***************************************************************************)
(* Bounds of the model.  The two memories are scaled down: the instrument  *)
(* has 256 pulse-definition slots and 4096 waveform samples                *)
(* (constants.py lines 18-19); the model keeps MaxSlots slots and          *)
(* 2*MaxPairs samples so that a full memory is reachable.                  *)
(***************************************************************************)
MaxSlots == 3
MaxPairs == 3
MaxLines == 2
MaxSamples == 3

\* Most waves in data/wavetables.csv
MaxWaves == 3

\* Most channels in one call of chan_en
MaxChannels == 3

C_NUM_WAVEFORM == MaxSlots
C_LENGTH_WAVEFORM == 2 * MaxPairs

\* C_LENGTH_WAVEFORM as constants.py sets it
LengthWaveform == 4096

(***************************************************************************)
(* Integer helpers: Python's int arithmetic on the values the code uses    *)
(***************************************************************************)
B == 2^16

\* x & (2^bits - 1) for a Python int x of either sign (two's complement)
AndMask(x, bits) == x % (2^bits)

\* int(p / q) for q > 0: Python's int() truncates toward zero
TruncDiv(p, q) == IF p >= 0 THEN p \div q ELSE -((-p) \div q)

\* The three limbs of a natural number below 2^31
Big(n) == <<n % B, n \div B, 0>>

\* data & 0xFFFFFFFF on limbs
And32(x) == <<x[1], x[2], 0>>

\* 1 << k for 0 <= k < 48
Shl1(k) == [i \in 1..3 |-> IF i = (k \div 16) + 1 THEN 2^(k % 16) ELSE 0]

Zero3 == <<0, 0, 0>>

(***************************************************************************)
(* str(n): the decimal text of a natural number given by its limbs         *)
(***************************************************************************)
\* n \div 10 and n % 10 by long division from the most significant limb
DivMod10(x) ==
    LET c3 == x[3]
        c2 == (c3 % 10) * B + x[2]
        c1 == (c2 % 10) * B + x[1]
    IN  [q |-> <<c1 \div 10, c2 \div 10, c3 \div 10>>, r |-> c1 % 10]

DigitChar(d) == <<"0", "1", "2", "3", "4", "5", "6", "7", "8", "9">>[d + 1]

RECURSIVE StrRec(_)
StrRec(x) ==
    IF x = Zero3 THEN <<>>
    ELSE LET dm == DivMod10(x) IN Append(StrRec(dm.q), DigitChar(dm.r))

Str(x) == IF x = Zero3 THEN <<"0">> ELSE StrRec(x)

(***************************************************************************)
(* int(text): the value of a decimal text, as the instrument parses it     *)
(***************************************************************************)
IsDigit(c) == c \in {"0", "1", "2", "3", "4", "5", "6", "7", "8", "9"}

DigitVal(c) == CHOOSE d \in 0..9 : DigitChar(d) = c

\* x * 10 + d on limbs (48 bits kept)
MulAdd10(x, d) ==
    LET c1 == x[1] * 10 + d
        c2 == x[2] * 10 + (c1 \div B)
        c3 == x[3] * 10 + (c2 \div B)
    IN  <<c1 % B, c2 % B, c3 % B>>

RECURSIVE ValRec(_, _)
ValRec(text, acc) ==
    IF text = <<>> THEN acc
    ELSE ValRec(Tail(text), MulAdd10(acc, DigitVal(Head(text))))

Val(text) == ValRec(text, Zero3)

(***************************************************************************)
(* Text helpers: str.strip, str.join, the `in` operator on strings         *)
(***************************************************************************)
IsSpace(c) == c \in {" ", "\n", "\r"}

RECURSIVE LStrip(_)
LStrip(s) == IF s # <<>> /\ IsSpace(Head(s)) THEN LStrip(Tail(s)) ELSE s

RECURSIVE RStrip(_)
RStrip(s) ==
    IF s # <<>> /\ IsSpace(s[Len(s)]) THEN RStrip(SubSeq(s, 1, Len(s) - 1)) ELSE s

Strip(s) == RStrip(LStrip(s))

\* sep.join(parts)
RECURSIVE Join(_, _)
Join(parts, sep) ==
    IF parts = <<>> THEN <<>>
    ELSE IF Len(parts) = 1 THEN parts[1]
    ELSE parts[1] \o sep \o Join(Tail(parts), sep)

\* needle in hay
Contains(hay, needle) ==
    \E i \in 0..(Len(hay) - Len(needle)) :
        SubSeq(hay, i + 1, i + Len(needle)) = needle

(***************************************************************************)
(* State                                                                   *)
(***************************************************************************)
VARIABLES
    state,  \* life of the session object: see States
    tx,     \* the frames written to the link by the last operation, in order
    pdef,   \* instrument: pulse-definition RAM, register -> 32-bit word
    wram,   \* instrument: waveform RAM, register pair -> 32-bit word
    op,     \* the last operation: its name, arguments and outcome
    rx,     \* the link: TRUE when response lines wait on it, not yet read
    pend,   \* for every frame of tx, the value of rx when it was written
    wavetables  \* storage: the wave ids heading data/wavetables.csv, in order

vars == <<state, tx, pdef, wram, op, rx, pend, wavetables>>

States == {"Disconnected", "Ready", "NoPort", "NoDevice", "VersionMismatch"}

\* One write to the link: ser.write(text + cmd)
Frame(text, cmd) == [text |-> text, cmd |-> cmd]

\* Whether the instrument answers a command that is no query with a line
\* (an echo, an acknowledgement, an error message)
Talks == BOOLEAN

\* k writes in a row with no read between them, on a link whose rx is p, to
\* an instrument that answers each as `talk` says: rx at each write
Unread(p, k, talk) == [i \in 1..k |-> p \/ (talk /\ i > 1)]

print_all_Skip(pending) == pending

\* print_all reads lines until readline() returns nothing: whether lines
\* waited or not, none waits after it
print_all(pending) == FALSE

PdefRegs == 0..(4 * C_NUM_WAVEFORM - 1)
WramRegs == 0..(C_LENGTH_WAVEFORM \div 2 - 1)

Init ==
    /\ state = "Disconnected"
    /\ tx = <<>>
    /\ pdef = [a \in PdefRegs |-> Zero3]
    /\ wram = [a \in WramRegs |-> Zero3]
    /\ op = [name |-> "none"]
    /\ rx = FALSE
    /\ pend = <<>>
    /\ wavetables = <<>>

(***************************************************************************)
(* QlaserFPGA.__init__: open the port, version handshake, echo off         *)
(***************************************************************************)
\* versions(): the stripped text of every line read back
versions(lines) == [i \in 1..Len(lines) |-> Strip(lines[i])]

\* Variant: either token is enough
VersionOk_Either(v) == Contains(v, FPGA_VERSION) \/ Contains(v, FIRMWARE_VERSION)

\* FPGA_VERSION in self.vers and FIRMWARE_VERSION in self.vers
VersionOk(v) == Contains(v, FPGA_VERSION) /\ Contains(v, FIRMWARE_VERSION)

\* The outcome of the version check: the exception raised, if any
InitOutcome(v) ==
    IF VersionOk(v) THEN "Ready"
    ELSE IF v = <<>> THEN "NoDevice"
    ELSE "VersionMismatch"

\* Variant: echo off is written before the outcome of the check is looked at
InitFrames_EchoFirst(outcome) ==
    <<Frame(<<>>, CMD_VERSIONS), Frame(<<"0">>, CMD_ECHO)>>

\* The frames the constructor writes: the version query, then echo off
\* only once the check has passed
InitFrames(outcome) ==
    IF outcome = "Ready"
    THEN <<Frame(<<>>, CMD_VERSIONS), Frame(<<"0">>, CMD_ECHO)>>
    ELSE <<Frame(<<>>, CMD_VERSIONS)>>

QlaserFPGA_init(portOk, lines) ==
    /\ state = "Disconnected"
    /\ IF ~portOk
       THEN /\ state' = "NoPort"
            /\ tx' = <<>>
            /\ rx' = FALSE
            /\ pend' = <<>>
            /\ op' = [name |-> "__init__", portOk |-> FALSE, lines |-> <<>>,
                      vers |-> <<>>]
       ELSE LET v == Join(versions(lines), <<",", " ">>)
            IN  /\ state' = InitOutcome(v)
                /\ tx' = InitFrames(InitOutcome(v))
                \* readlines() reads the link empty before echo off is written
                /\ pend' = [i \in 1..Len(InitFrames(InitOutcome(v))) |-> FALSE]
                /\ \E talk \in Talks :
                      rx' = (InitOutcome(v) = "Ready" /\ talk)
                /\ op' = [name |-> "__init__", portOk |-> TRUE, lines |-> lines,
                          vers |-> v]
    /\ UNCHANGED <<pdef, wram, wavetables>>

\* A method can be called only on an object whose constructor returned
Constructed == state = "Ready"

\* What a method without a return value returns
None == 0 - 1

(***************************************************************************)
(* chan_sel                                                                *)
(***************************************************************************)
\* The range test of chan_sel
ChanSelInvalid(channel) == channel > C_MAX_CHANNELS \/ channel < 0

chan_sel(channel) ==
    /\ Constructed
    /\ LET ch == IF ChanSelInvalid(channel) THEN 0 ELSE channel
       IN  /\ tx' = <<Frame(Str(Shl1(ch)), CMD_PULSE_CHSEL)>>
           \* the write, then print_all() reads the link empty
           /\ pend' = <<rx>>
           /\ rx' = FALSE
           /\ op' = [name |-> "chan_sel", channel |-> channel,
                     error |-> ChanSelInvalid(channel)]
    /\ UNCHANGED <<state, pdef, wram, wavetables>>

(***************************************************************************)
(* read_errs                                                               *)
(***************************************************************************)
\* Bit b of a natural number given by its limbs
Bit(x, b) == (x[(b \div 16) + 1] \div (2^(b % 16))) % 2

\* bin(v)[2:]: the binary digits, most significant first, no leading zero
RECURSIVE BinRec(_, _)
BinRec(x, top) ==
    IF top < 0 THEN <<>>
    ELSE <<IF Bit(x, top) = 1 THEN "1" ELSE "0">> \o BinRec(x, top - 1)

TopBit(x) == IF x = Zero3 THEN 0 ELSE CHOOSE b \in 0..47 :
                 Bit(x, b) = 1 /\ \A c \in (b + 1)..47 : Bit(x, c) = 0

Bin(x) == BinRec(x, TopBit(x))

\* str.zfill(width)
zfill(s, width) ==
    IF Len(s) >= width THEN s
    ELSE [i \in 1..(width - Len(s)) |-> "0"] \o s

\* Variant: the position in the text taken as the channel
ErrChannel_Position(j) == j

\* The channel reported for position j (from 0) of the zero-filled text
ErrChannel(j) == C_MAX_CHANNELS - j - 1

\* The violations logged for one kind: a (kind, channel) pair for every '1'
\* of the text, in the order of enumerate()
RECURSIVE ErrScan(_, _, _)
ErrScan(kind, erro_chan, j) ==
    IF j >= Len(erro_chan) THEN <<>>
    ELSE (IF erro_chan[j + 1] = "1" THEN <<<<kind, ErrChannel(j)>>>> ELSE <<>>)
         \o ErrScan(kind, erro_chan, j + 1)

\* Variant: the count starts again at every kind
ErrReports_LastKind(erros) ==
    IF erros = <<>> THEN <<>>
    ELSE ErrScan(erros[Len(erros)][1],
                 zfill(Bin(erros[Len(erros)][2]), C_MAX_CHANNELS), 0)

\* All violations of a response {kind: mask, ...}, given as its items
RECURSIVE ErrReports(_)
ErrReports(erros) ==
    IF erros = <<>> THEN <<>>
    ELSE ErrScan(erros[1][1], zfill(Bin(erros[1][2]), C_MAX_CHANNELS), 0)
         \o ErrReports(Tail(erros))

read_errs(erros) ==
    /\ Constructed
    /\ tx' = <<Frame(<<>>, CMD_CH_ERR)>>
    \* print_all(), the write, readline() of the one line of the answer
    /\ pend' = <<print_all(rx)>>
    /\ rx' = FALSE
    /\ op' = [name |-> "read_errs", erros |-> erros, flushed |-> rx,
              reports |-> ErrReports(erros),
              cnt_err |-> Len(ErrReports(erros)), ret |-> None]
    /\ UNCHANGED <<state, pdef, wram, wavetables>>

(***************************************************************************)
(* xil_out32 and the instrument's memories                                 *)
(***************************************************************************)
\* Variant: the data masked with 0xFFFF
xil_out32_Mask16(addr, data, cmd) ==
    Frame(Str(<<data[1], 0, AndMask(addr, 16)>>), cmd)

\* xil_out32: str(((addr & 0xFFFF) << 32) | (data & 0xFFFFFFFF)) + cmd
xil_out32(addr, data, cmd) ==
    Frame(Str(<<And32(data)[1], And32(data)[2], AndMask(addr, 16)>>), cmd)

\* The bytes of a frame on the link: the text, then the command byte
Bytes(f) == Append(f.text, f.cmd)

\* The instrument executes one frame on the memory that block command `cmd`
\* selects: the 16-bit address and the 32-bit data of the packed number
DevWrite(ram, f, cmd) ==
    LET n == Val(f.text)
    IN  IF f.cmd = cmd /\ n[3] \in DOMAIN ram
        THEN [ram EXCEPT ![n[3]] = <<n[1], n[2], 0>>]
        ELSE ram

RECURSIVE DevApply(_, _, _)
DevApply(ram, frames, cmd) ==
    IF frames = <<>> THEN ram
    ELSE DevApply(DevWrite(ram, Head(frames), cmd), Tail(frames), cmd)

\* A register write by xil_out32 called on its own
XilOut32(addr, data, cmd) ==
    /\ Constructed
    /\ tx' = <<xil_out32(addr, data, cmd)>>
    /\ pdef' = DevApply(pdef, <<xil_out32(addr, data, cmd)>>, CMD_PDEFN_WR)
    /\ wram' = DevApply(wram, <<xil_out32(addr, data, cmd)>>, CMD_WAVERAM_WR)
    \* no read
    /\ pend' = <<rx>>
    /\ \E talk \in Talks : rx' = (rx \/ talk)
    /\ op' = [name |-> "xil_out32", addr |-> addr, data |-> data, cmd |-> cmd]
    /\ UNCHANGED <<state, wavetables>>

(***************************************************************************)
(* write_waves, write_wave_table                                           *)
(***************************************************************************)
\* Variant: the first value in the top half of the register
WavePack_Swapped(val16_lo, val16_up) ==
    LET hi == val16_lo * (2^(C_BITS_ADDR_WAVE - 16)) + (val16_up \div B)
    IN  <<val16_up % B, hi % B, hi \div B>>

\* val16_up * 2**C_BITS_ADDR_WAVE + val16_lo, on limbs (2^16 is one limb)
WavePack(val16_lo, val16_up) ==
    LET hi == val16_up * (2^(C_BITS_ADDR_WAVE - 16)) + (val16_lo \div B)
    IN  <<val16_lo % B, hi % B, hi \div B>>

write_waves(addr, val16_lo, val16_up) ==
    xil_out32(addr \div 2, WavePack(val16_lo, val16_up), CMD_WAVERAM_WR)

\* The alignment test of write_wave_table
OddStart(start_addr) == start_addr % 2 # 0

\* The frames of write_wave_table past the alignment test
WaveTableFrames(start_addr, values, all_chan) ==
    LET n == Len(values)
    IN  (IF all_chan THEN <<Frame(<<"9", "9">>, CMD_PULSE_CHSEL)>> ELSE <<>>)
        \o [k \in 1..(n \div 2) |->
               write_waves(start_addr + 2 * (k - 1), values[2 * k - 1], values[2 * k])]
        \o (IF n % 2 = 1
            THEN <<write_waves(start_addr + n - 1, values[n], 0)>>
            ELSE <<>>)

\* Variant: the channel-select frame of all_chan goes out before the
\* alignment test
WaveTableTx_Reordered(start_addr, values, all_chan) ==
    IF OddStart(start_addr)
    THEN (IF all_chan THEN <<Frame(<<"9", "9">>, CMD_PULSE_CHSEL)>> ELSE <<>>)
    ELSE WaveTableFrames(start_addr, values, all_chan)

\* Everything write_wave_table writes to the link
WaveTableTx(start_addr, values, all_chan) ==
    IF OddStart(start_addr) THEN <<>>
    ELSE WaveTableFrames(start_addr, values, all_chan)

\* Variant: the start address above the length
WaveId_Swapped(start_addr, values) ==
    AndMask(start_addr, 12) * (2^16) + Len(values)

\* The wave id returned: (len(values) << 16) + (start_addr & 0x0FFF)
WaveId(start_addr, values) ==
    Len(values) * (2^16) + AndMask(start_addr, 12)

write_wave_table(start_addr, values, all_chan) ==
    /\ Constructed
    /\ LET frames == WaveTableTx(start_addr, values, all_chan)
       IN  /\ tx' = frames
           /\ wram' = DevApply(wram, frames, CMD_WAVERAM_WR)
           \* no read at all
           /\ \E talk \in Talks :
                 /\ pend' = Unread(rx, Len(frames), talk)
                 /\ rx' = (rx \/ (talk /\ frames # <<>>))
           /\ op' = [name |-> "write_wave_table", start_addr |-> start_addr,
                     values |-> values, all_chan |-> all_chan,
                     ret |-> IF OddStart(start_addr) THEN None
                             ELSE WaveId(start_addr, values)]
    /\ UNCHANGED <<state, pdef, wavetables>>

(***************************************************************************)
(* read_wave_table                                                         *)
(***************************************************************************)
\* str.isdigit()
AllDigits(text) == text # <<>> /\ \A i \in 1..Len(text) : IsDigit(text[i])

\* str.split(","): the texts between the commas, one more than the commas
RECURSIVE SplitRec(_, _)
SplitRec(s, cur) ==
    IF s = <<>> THEN <<cur>>
    ELSE IF Head(s) = "," THEN <<cur>> \o SplitRec(Tail(s), <<>>)
    ELSE SplitRec(Tail(s), Append(cur, Head(s)))

Split(s) == SplitRec(s, <<>>)

\* The sample at address a of the waveform RAM: the low half of register
\* a // 2 for an even address, the high half for an odd one
DevSample(ram, a) ==
    IF (a \div 2) \in DOMAIN ram THEN ram[a \div 2][(a % 2) + 1] ELSE 0

\* The instrument's answer to the waveform read query (start << 16) + end:
\* the samples from start up to end, in decimal, separated by commas
DevWaveReply(ram, query) ==
    LET q == Val(query.text)
        first == q[2]
        last == q[1]
    IN  Join([k \in 1..(last - first) |-> Str(Big(DevSample(ram, first + k - 1)))],
             <<",">>) \o <<"\r", "\n">>

\* Variant: a read up to the last address is refused too
ReadWaveInvalid_Strict(start_addr, length) ==
    start_addr < 0 \/ length < 0 \/ start_addr + length >= C_LENGTH_WAVEFORM

\* The two range tests of read_wave_table
ReadWaveInvalid(start_addr, length) ==
    start_addr < 0 \/ length < 0 \/ start_addr + length > C_LENGTH_WAVEFORM

ReadWaveQuery(start_addr, length) ==
    Frame(Str(Big(start_addr * (2^16) + (start_addr + length))), CMD_RD_WAVE)

\* values: int(i) for every text i of the split line that is a number
RECURSIVE DigitValues(_)
DigitValues(data) ==
    IF data = <<>> THEN <<>>
    ELSE (IF AllDigits(Head(data)) THEN <<Val(Head(data))>> ELSE <<>>)
         \o DigitValues(Tail(data))

\* line: what readline() returns for the query
read_wave_table(start_addr, length, line) ==
    /\ Constructed
    /\ IF ReadWaveInvalid(start_addr, length)
       THEN /\ tx' = <<>>
            /\ pend' = <<>>
            /\ rx' = rx
            /\ op' = [name |-> "read_wave_table", start_addr |-> start_addr,
                      flushed |-> FALSE,
                      length |-> length, failed |-> TRUE, nread |-> 0,
                      line |-> <<>>, values |-> <<>>]
       ELSE \* print_all(), the write, one readline()
            /\ tx' = <<ReadWaveQuery(start_addr, length)>>
            /\ pend' = <<print_all(rx)>>
            /\ rx' = FALSE
            /\ op' = [name |-> "read_wave_table", start_addr |-> start_addr,
                      flushed |-> rx,
                      length |-> length, failed |-> FALSE, nread |-> 1,
                      line |-> line, values |-> DigitValues(Split(Strip(line)))]
    /\ UNCHANGED <<state, pdef, wram, wavetables>>

(***************************************************************************)
(* read_pulse_defn                                                         *)
(***************************************************************************)

\* The instrument's answer to the pulse-definition read query: the decimal
\* texts of `count` registers from register `first`
DevPdefReply(ram, query) ==
    LET q == Val(query.text)
        first == q[2]
        count == q[1]
    IN  [k \in 1..count |->
            IF first + k - 1 \in DOMAIN ram THEN Str(ram[first + k - 1]) ELSE <<"0">>]

\* Variant: the gain unscaled by the time factor's fraction bits
DecodeGain_FracBits(v) == [num |-> Val(v)[2], dexp |-> BIT_FRAC]

\* One PulseConfig from four register texts
DecodeStartTime(v) == (Val(v)[2] % (2^8)) * B + Val(v)[1]
DecodeGain(v) == [num |-> Val(v)[2], dexp |-> BIT_FRAC_GAIN]
DecodeAddr(v) == [num |-> Val(v)[1], dexp |-> BIT_FRAC]
DecodeSustain(v) == (Val(v)[2] % 2) * B + Val(v)[1]

PulseConfig(v0, v1, v2, v3) ==
    [wave_id |-> Val(v1), start_time |-> DecodeStartTime(v0),
     scale_gain |-> DecodeGain(v2), scale_addr |-> DecodeAddr(v2),
     sustain |-> DecodeSustain(v3)]

\* The loop `for i in range(start, len(values), 4)`; i counts from 0.
\* all(values[i+j].isdigit() ...) stops at the first text that is no number
\* and raises IndexError when it runs past the end before that
RECURSIVE ReadGroups(_, _)
ReadGroups(values, i) ==
    IF i >= Len(values) THEN [configs |-> <<>>, raised |-> FALSE]
    ELSE LET bad == {j \in 0..3 : i + j >= Len(values) \/ ~AllDigits(values[i + j + 1])}
             j0 == CHOOSE j \in bad : \A k \in bad : j <= k
         IN  IF bad # {} /\ i + j0 >= Len(values)
             THEN [configs |-> <<>>, raised |-> TRUE]
             ELSE LET rest == ReadGroups(values, i + 4)
                  IN  IF bad # {} THEN rest
                      ELSE [configs |->
                               <<PulseConfig(values[i + 1], values[i + 2],
                                             values[i + 3], values[i + 4])>>
                               \o rest.configs,
                            raised |-> rest.raised]

\* The arguments after the three range checks
ReadArgs(n_entry, start) ==
    LET n1 == IF n_entry > C_NUM_WAVEFORM \/ n_entry <= 0 THEN C_NUM_WAVEFORM ELSE n_entry
        s1 == IF start > C_NUM_WAVEFORM \/ start < 0 THEN 0 ELSE start
    IN  IF s1 + n1 > C_NUM_WAVEFORM
        THEN [n |-> C_NUM_WAVEFORM, start |-> 0]
        ELSE [n |-> n1, start |-> s1]

ReadQuery(n_entry, start) ==
    LET a == ReadArgs(n_entry, start)
    IN  Frame(Str(Big((4 * a.start) * (2^16) + 4 * a.n)), CMD_RD_PDEFN)

\* What read_pulse_defn returns on memory `ram`
ReadPulse(ram, n_entry, start) ==
    ReadGroups(DevPdefReply(ram, ReadQuery(n_entry, start)),
               ReadArgs(n_entry, start).start)

read_pulse_defn(n_entry, start) ==
    /\ Constructed
    /\ tx' = <<ReadQuery(n_entry, start)>>
    \* print_all(), the write, readline() of the one line of the answer
    /\ pend' = <<print_all(rx)>>
    /\ rx' = FALSE
    /\ op' = [name |-> "read_pulse_defn", n_entry |-> n_entry, start |-> start,
              flushed |-> rx,
              configs |-> ReadPulse(pdef, n_entry, start).configs,
              raised |-> ReadPulse(pdef, n_entry, start).raised]
    /\ UNCHANGED <<state, pdef, wram, wavetables>>

(***************************************************************************)
(* entry_pulse_defn, clear_ram_defn                                        *)
(***************************************************************************)
\* sum(list(i.values())) == 0: every field is non-negative, so the sum is
\* zero exactly when every field is
SumIsZero(c) ==
    /\ c.wave_id = Zero3
    /\ c.start_time = 0
    /\ c.scale_gain.num = 0
    /\ c.scale_addr.num = 0
    /\ c.sustain = 0

\* Variant: the last empty entry
AutoEntry_Last(pdefs) ==
    LET empty == {i \in 1..Len(pdefs) : SumIsZero(pdefs[i])}
    IN  IF empty = {} THEN 0
        ELSE (CHOOSE i \in empty : \A k \in empty : i >= k) - 1

\* The entry chosen when n_entry is None: the first empty one, else 0
AutoEntry(pdefs) ==
    LET empty == {i \in 1..Len(pdefs) : SumIsZero(pdefs[i])}
    IN  IF empty = {} THEN 0
        ELSE (CHOOSE i \in empty : \A k \in empty : i <= k) - 1

\* Variant: round(x * 2**bits), half away from zero
ScaleInt_Rounded(x, bits) ==
    IF x.dexp > bits
    THEN TruncDiv(2 * TruncDiv(x.num, 2^(x.dexp - bits - 1))
                  + (IF x.num >= 0 THEN 1 ELSE 0 - 1), 2)
    ELSE x.num * (2^(bits - x.dexp))

\* int(x * 2**bits) for the float x
ScaleInt(x, bits) ==
    IF x.dexp >= bits THEN TruncDiv(x.num, 2^(x.dexp - bits))
    ELSE x.num * (2^(bits - x.dexp))

\* Variant: the minimum applied to every entry
StartTime_AnyEntry(n_start_time, n_entry) ==
    IF n_start_time < PULSE_START_MIN THEN PULSE_START_MIN ELSE n_start_time

\* The start time after the minimum check
StartTime(n_start_time, n_entry) ==
    IF n_start_time < PULSE_START_MIN /\ n_entry = 0 THEN PULSE_START_MIN
    ELSE n_start_time

\* Variant: the address is not advanced before the last write
DefnFrames_NoLastStep(n_wave, n_start_time, n_scale_gain, n_scale_addr, n_flattop, n_entry) ==
    LET gain == ScaleInt(n_scale_gain, BIT_FRAC_GAIN)
        addr == ScaleInt(n_scale_addr, BIT_FRAC)
        n_waddr == 4 * n_entry
    IN  << xil_out32(n_waddr,
                     Big(AndMask(StartTime(n_start_time, n_entry), 24)),
                     CMD_PDEFN_WR),
           xil_out32(n_waddr + 1, n_wave, CMD_PDEFN_WR),
           xil_out32(n_waddr + 2,
                     <<AndMask(addr, 16), AndMask(gain, 16), 0>>,
                     CMD_PDEFN_WR),
           xil_out32(n_waddr + 2, Big(AndMask(n_flattop, 17)), CMD_PDEFN_WR) >>

\* Variant: nothing is written when a field exceeds its width
DefnFrames_Abort(n_wave, n_start_time, n_scale_gain, n_scale_addr, n_flattop, n_entry) ==
    LET gain == ScaleInt(n_scale_gain, BIT_FRAC_GAIN)
        addr == ScaleInt(n_scale_addr, BIT_FRAC)
        n_waddr == 4 * n_entry
    IN  IF n_start_time > 2^24 - 1 \/ gain > 2^16 - 1 \/ addr > 2^16 - 1
           \/ n_flattop > 2^17 - 1
        THEN <<>>
        ELSE << xil_out32(n_waddr,
                          Big(AndMask(StartTime(n_start_time, n_entry), 24)),
                          CMD_PDEFN_WR),
                xil_out32(n_waddr + 1, n_wave, CMD_PDEFN_WR),
                xil_out32(n_waddr + 2,
                          <<AndMask(addr, 16), AndMask(gain, 16), 0>>,
                          CMD_PDEFN_WR),
                xil_out32(n_waddr + 3, Big(AndMask(n_flattop, 17)), CMD_PDEFN_WR) >>

\* The four register writes
DefnFrames(n_wave, n_start_time, n_scale_gain, n_scale_addr, n_flattop, n_entry) ==
    LET gain == ScaleInt(n_scale_gain, BIT_FRAC_GAIN)
        addr == ScaleInt(n_scale_addr, BIT_FRAC)
        n_waddr == 4 * n_entry
    IN  << xil_out32(n_waddr,
                     Big(AndMask(StartTime(n_start_time, n_entry), 24)),
                     CMD_PDEFN_WR),
           xil_out32(n_waddr + 1, n_wave, CMD_PDEFN_WR),
           xil_out32(n_waddr + 2,
                     <<AndMask(addr, 16), AndMask(gain, 16), 0>>,
                     CMD_PDEFN_WR),
           xil_out32(n_waddr + 3, Big(AndMask(n_flattop, 17)), CMD_PDEFN_WR) >>

entry_pulse_defn(n_wave, n_start_time, n_scale_gain, n_scale_addr, n_flattop, n_entry) ==
    /\ Constructed
    /\ LET auto == n_entry = None
           rd == ReadPulse(pdef, C_NUM_WAVEFORM, 0)
           entry == IF auto THEN AutoEntry(rd.configs) ELSE n_entry
           scan == IF auto THEN <<ReadQuery(C_NUM_WAVEFORM, 0)>> ELSE <<>>
           frames == IF auto /\ rd.raised THEN <<>>
                     ELSE DefnFrames(n_wave, n_start_time, n_scale_gain,
                                     n_scale_addr, n_flattop, entry)
       IN  /\ tx' = scan \o frames
           /\ pdef' = DevApply(pdef, frames, CMD_PDEFN_WR)
           \* the scan reads the link empty and then its answer; the four
           \* writes follow with no read
           /\ \E talk \in Talks :
                 LET p == ~auto /\ rx
                 IN  /\ pend' = [i \in 1..Len(scan) |-> FALSE]
                                 \o Unread(p, Len(frames), talk)
                     /\ rx' = (p \/ (talk /\ frames # <<>>))
           /\ op' = [name |-> "entry_pulse_defn", n_wave |-> n_wave,
                     n_start_time |-> n_start_time, n_scale_gain |-> n_scale_gain,
                     n_scale_addr |-> n_scale_addr, n_flattop |-> n_flattop,
                     auto |-> auto, n_entry |-> entry,
                     raised |-> auto /\ rd.raised]
    /\ UNCHANGED <<state, wram, wavetables>>

\* Variant: one write for every slot
ClearDefnFrames_PerSlot ==
    [i \in 1..C_NUM_WAVEFORM |-> xil_out32(i - 1, Zero3, CMD_PDEFN_WR)]

\* for i in range(C_NUM_WAVEFORM * 4): xil_out32(i, 0, CMD_PDEFN_WR)
ClearDefnFrames ==
    [i \in 1..(C_NUM_WAVEFORM * 4) |-> xil_out32(i - 1, Zero3, CMD_PDEFN_WR)]

clear_ram_defn ==
    /\ Constructed
    /\ LET frames == ClearDefnFrames
       IN  /\ tx' = frames
           /\ pdef' = DevApply(pdef, frames, CMD_PDEFN_WR)
           \* every write in a row, then print_all() reads the link empty
           /\ \E talk \in Talks : pend' = Unread(rx, Len(frames), talk)
           /\ rx' = FALSE
    /\ op' = [name |-> "clear_ram_defn"]
    /\ UNCHANGED <<state, wram, wavetables>>

\* for i in range(0, C_LENGTH_WAVEFORM, 2): write_waves(i, 0, 0)
ClearWaveFrames ==
    [k \in 1..(C_LENGTH_WAVEFORM \div 2) |-> write_waves(2 * (k - 1), 0, 0)]

clear_wave_table ==
    /\ Constructed
    /\ LET frames == ClearWaveFrames
       IN  /\ tx' = frames
           /\ wram' = DevApply(wram, frames, CMD_WAVERAM_WR)
           \* every write in a row, then print_all() reads the link empty
           /\ \E talk \in Talks : pend' = Unread(rx, Len(frames), talk)
           /\ rx' = FALSE
    /\ op' = [name |-> "clear_wave_table"]
    /\ UNCHANGED <<state, pdef, wavetables>>

(***************************************************************************)
(* wavecli.add_wave                                                        *)
(***************************************************************************)
AddWaveStart_NoEven(last_id) == (last_id % (2^16)) + (last_id \div (2^16))

\* The address after the last wave of the storage, made even
AddWaveStart(last_id) ==
    LET start_addr == (last_id % (2^16)) + (last_id \div (2^16))
    IN  start_addr + (start_addr % 2)

\* len(values) << 16 | start_addr: past the overflow check start_addr is at
\* most C_LENGTH_WAVEFORM, below 2^16, and shares no bit with the length
AddWaveId(values, start_addr) == Len(values) * (2^16) + start_addr

\* add_wave opens a session of its own (the handshake), reads the last id of
\* the storage or clears the waveform memory, records the new wave and its
\* id in the storage and then writes the wave to every channel
add_wave(values, keep_previous) ==
    /\ Constructed
    /\ \E talk \in Talks :
        LET hs == InitFrames("Ready")
            noLast == keep_previous /\ wavetables = <<>>
            last_id == IF keep_previous /\ ~noLast
                       THEN wavetables[Len(wavetables)] ELSE 0
            clr == IF keep_previous THEN <<>> ELSE ClearWaveFrames
            start_addr == AddWaveStart(last_id)
            overflow == start_addr + Len(values) > C_LENGTH_WAVEFORM
            waveid == AddWaveId(values, start_addr)
            wr == WaveTableTx(start_addr, values, TRUE)
            \* rx at the frames: the version query, echo off after readlines(),
            \* the clear (drained at its end), the wave
            hsp == <<rx, FALSE>>
            clrp == [i \in 1..Len(clr) |-> talk]
            wrp == Unread(keep_previous /\ talk, Len(wr), talk)
        IN  IF noLast
            THEN /\ tx' = hs
                 /\ pend' = hsp
                 /\ rx' = talk
                 /\ op' = [name |-> "add_wave", values |-> values,
                           keep_previous |-> keep_previous, raised |-> TRUE,
                           start_addr |-> 0, waveid |-> None, written |-> None]
                 /\ UNCHANGED <<wram, wavetables>>
            ELSE IF overflow
            THEN /\ tx' = hs \o clr
                 /\ pend' = hsp \o clrp
                 /\ rx' = (keep_previous /\ talk)
                 /\ wram' = DevApply(wram, clr, CMD_WAVERAM_WR)
                 /\ op' = [name |-> "add_wave", values |-> values,
                           keep_previous |-> keep_previous, raised |-> TRUE,
                           start_addr |-> start_addr, waveid |-> None,
                           written |-> None]
                 /\ UNCHANGED wavetables
            ELSE /\ tx' = hs \o clr \o wr
                 /\ pend' = hsp \o clrp \o wrp
                 /\ rx' = ((keep_previous /\ talk) \/ (talk /\ wr # <<>>))
                 /\ wram' = DevApply(wram, clr \o wr, CMD_WAVERAM_WR)
                 /\ wavetables' =
                       (IF keep_previous THEN wavetables ELSE <<>>) \o <<waveid>>
                 /\ op' = [name |-> "add_wave", values |-> values,
                           keep_previous |-> keep_previous, raised |-> FALSE,
                           start_addr |-> start_addr, waveid |-> waveid,
                           written |-> IF OddStart(start_addr) THEN None
                                       ELSE WaveId(start_addr, values)]
    /\ UNCHANGED <<state, pdef>>

(***************************************************************************)
(* Inputs                                                                  *)
(***************************************************************************)
\* Lines the instrument may answer the version query with
L_BOTH == FPGA_VERSION \o <<" ">> \o FIRMWARE_VERSION \o <<"\r", "\n">>
L_FPGA == <<"F", " ">> \o FPGA_VERSION \o <<"\n">>
L_FW == <<" ">> \o FIRMWARE_VERSION \o <<"\n">>
L_BLANK == <<"\r", "\n">>
L_OLD == <<"3", "A", "C", "1", "0", "0", "0", "0", "\n">>
L_HALF1 == <<"3", "A", "C", "1">>
L_HALF2 == <<"0", "0", "0", "1", "\n">>

VersionLines == {L_BOTH, L_FPGA, L_FW, L_BLANK, L_OLD, L_HALF1, L_HALF2}

SeqsUpTo(S, n) == UNION {[1..k -> S] : k \in 0..n}

Handshakes == SeqsUpTo(VersionLines, MaxLines)

GoodHandshakes == {<<L_BOTH>>}

ChannelInputs == (0 - 2)..(C_MAX_CHANNELS + 2)

\* 32-bit channel masks: every single bit, no bit, and some with several
ErrMasks ==
    {Shl1(j) : j \in 0..(C_MAX_CHANNELS - 1)}
    \cup {Zero3, <<1, 2^15, 0>>, <<5, 0, 0>>, <<B - 1, B - 1, 0>>}

FewMasks == {Zero3, Shl1(0), <<1, 2^15, 0>>}

\* Responses of the channel-error query, as the items of the decoded object
ErrReplies ==
    {<<>>}
    \cup {<<<<"X", m>>>> : m \in ErrMasks}
    \cup {<<<<"X", m>>, <<"Y", n>>>> : m \in ErrMasks, n \in FewMasks}

\* Waveforms: 1, 2, 3, ... and the largest 16-bit samples, of every length
WaveValues ==
    {[i \in 1..n |-> i] : n \in 0..MaxSamples}
    \cup {[i \in 1..n |-> B - i] : n \in 1..MaxSamples}

StartAddrs == (0 - 1)..(C_LENGTH_WAVEFORM + 1)

\* Floats
F(num, dexp) == [num |-> num, dexp |-> dexp]
One == F(1, 0)

\* 0x00010000: one sample at address 0
Wave1 == <<0, 1, 0>>

\* A pulse definition in range, and the same with the start time below the
\* minimum and above 24 bits
DefNominal == [n_wave |-> Wave1, n_start_time |-> 9, n_scale_gain |-> One,
               n_scale_addr |-> One, n_flattop |-> 7]
DefEarly == [DefNominal EXCEPT !.n_start_time = 3]
DefLate == [DefNominal EXCEPT !.n_start_time = 2^24 + 3]

FewDefs == {DefEarly, DefLate}

Entries == {None} \cup (0..(C_NUM_WAVEFORM - 1))

\* Start times: negative, below the minimum, the minimum, in range, the
\* largest 24-bit value, above 24 bits
StartTimes == {0 - 1, 0, 3, PULSE_START_MIN, 9, 2^24 - 1, 2^24 + 3}

\* Gains: 1, 1/2, 24576.75 / 2^15, 0.75 / 2^15, 2.5 (17 bits), -1/2
Gains == {One, F(1, 1), F(98307, 17), F(3, 17), F(5, 1), F(0 - 1, 1)}

\* Time factors: 1, 1.5, 257.5 / 2^8, 257.75 / 2^8, 255.99 (16 bits), 256 (17 bits)
TimeFactors == {One, F(3, 1), F(515, 9), F(1031, 10), F(65535, 8), F(256, 0)}

\* Sustain and wave id, varied together
Tails == { [n_flattop |-> 7, n_wave |-> Wave1],
           [n_flattop |-> 0, n_wave |-> <<2, 3, 0>>],
           [n_flattop |-> 2^17 - 1, n_wave |-> <<B - 1, B - 1, 0>>],
           [n_flattop |-> 2^17 + 1, n_wave |-> Zero3] }

RichDefs ==
    {[n_wave |-> x.n_wave, n_start_time |-> t, n_scale_gain |-> g,
      n_scale_addr |-> a, n_flattop |-> x.n_flattop] :
        t \in StartTimes, g \in Gains, a \in TimeFactors, x \in Tails}

\* Definitions that leave registers of their slot zero: only the sustain set,
\* and nothing set at all
DefSparse == [n_wave |-> Zero3, n_start_time |-> 0, n_scale_gain |-> F(0, 0),
              n_scale_addr |-> F(0, 0), n_flattop |-> 1]
DefZero == [DefSparse EXCEPT !.n_flattop = 0]

AutoDefs == {DefNominal, DefSparse, DefZero}

\* The memory after writing definition d into the slots of `slots`
RamWith(d, slots) ==
    [r \in PdefRegs |->
        IF (r \div 4) \in slots
        THEN LET f == DefnFrames(d.n_wave, d.n_start_time, d.n_scale_gain,
                                 d.n_scale_addr, d.n_flattop, r \div 4)
                 n == Val(f[(r % 4) + 1].text)
             IN  <<n[1], n[2], 0>>
        ELSE Zero3]

\* Memories earlier writes leave behind: empty, slot 0 taken, every slot taken
EncRams == {RamWith(DefNominal, {}), RamWith(DefNominal, {0}),
            RamWith(DefNominal, 0..(C_NUM_WAVEFORM - 1))}

(***************************************************************************)
(* genwave.vdac_to_hex (wavecli.vdac_to_hex is the same text)              *)
(***************************************************************************)
DAC_BITS_RES == 12

VREF_INTERNAL == "internal"

VREF_EXTERNAL == "external"

\* x > y on floats num / 2^dexp
Gt(x, y) == x.num * (2^y.dexp) > y.num * (2^x.dexp)

\* 2.0 * vref
Twice(vref) == F(2 * vref.num, vref.dexp)

\* The if / elif / elif chain that limits the voltage
DacVoltage(voltage, vref, vref_type) ==
    IF vref_type = VREF_INTERNAL /\ Gt(voltage, Twice(vref)) THEN Twice(vref)
    ELSE IF vref_type = VREF_EXTERNAL /\ Gt(voltage, vref) THEN vref
    ELSE IF voltage.num < 0 THEN F(0, 0)
    ELSE voltage

\* step * 2^DAC_BITS_RES: the step is 2.0 * vref / 2.0**DAC_BITS_RES for the
\* internal reference and vref / 2.0**DAC_BITS_RES for any other vref_type
DacSpan(vref, vref_type) ==
    IF vref_type = VREF_INTERNAL THEN Twice(vref) ELSE vref

\* int(voltage / step)
DacQuotient(voltage, span) ==
    TruncDiv(voltage.num * (2^DAC_BITS_RES) * (2^span.dexp),
             span.num * (2^voltage.dexp))

DacLimit_Inclusive(dac_code) ==
    IF dac_code > 2^DAC_BITS_RES THEN 2^DAC_BITS_RES ELSE dac_code

\* if dac_code > 2**DAC_BITS_RES - 1: dac_code = 2**DAC_BITS_RES - 1
DacLimit(dac_code) ==
    IF dac_code > 2^DAC_BITS_RES - 1 THEN 2^DAC_BITS_RES - 1 ELSE dac_code

vdac_to_hex(voltage, vref, vref_type) ==
    DacLimit(DacQuotient(DacVoltage(voltage, vref, vref_type),
                         DacSpan(vref, vref_type)))

\* Voltages in quarters of a volt from -0.5 V to 5.5 V, and some next to the
\* ends of the ranges
Voltages == {F(n, 2) : n \in (0 - 2)..22}
            \cup {F(0 - 1, 12), F(1, 12), F(1, 11), F(2559, 10), F(2561, 10),
                  F(5119, 11), F(5121, 11), F(4095, 12), F(40, 0)}

\* VOLTAGE_REF and references that are not a power of two times it
Vrefs == {F(5, 2), F(1, 0), F(3, 0), F(1, 1), F(3, 2)}

VrefTypes == {VREF_INTERNAL, VREF_EXTERNAL}

(***************************************************************************)
(* genwave.poly_gen_numpy and the table that load_waves builds from it     *)
(***************************************************************************)
\* The largest dexp of the coefficients
RECURSIVE MaxDexp(_)
MaxDexp(coeff) ==
    IF coeff = <<>> THEN 0
    ELSE LET d == MaxDexp(Tail(coeff))
         IN  IF Head(coeff).dexp > d THEN Head(coeff).dexp ELSE d

\* np.sum(coeff * time ** powers) for powers k .. degrees, as a numerator
\* over 2^D * time.den^degrees
RECURSIVE PolySum(_, _, _, _, _)
PolySum(coeff, time, degrees, k, D) ==
    IF k > degrees THEN 0
    ELSE coeff[k].num * (2^(D - coeff[k].dexp)) * (time.num^k)
             * (time.den^(degrees - k))
         + PolySum(coeff, time, degrees, k + 1, D)

\* The value of the polynomial at time = num / den, as the fraction num / den
poly_gen_numpy(degrees, time, coeff) ==
    LET D == MaxDexp(coeff)
    IN  [num |-> PolySum(coeff, time, degrees, 1, D) * (2^(C_BITS_ADDR_WAVE - 1)),
         den |-> (2^D) * (time.den^degrees) * (degrees + 1)]

\* nval = int(poly_gen_numpy(...)); if nval < 0: nval = 0
TableSample(i, wave_len, coefficents) ==
    LET p == poly_gen_numpy(Len(coefficents), [num |-> i, den |-> wave_len],
                            coefficents)
        nval == TruncDiv(p.num, p.den)
    IN  IF nval < 0 THEN 0 ELSE nval

TablePad_Never(wave_len, table) == table

\* if wave_len % 2 != 0: raw_table.append(0)
TablePad(wave_len, table) ==
    IF wave_len % 2 # 0 THEN Append(table, 0) ELSE table

raw_table(wave_len, coefficents) ==
    TablePad(wave_len,
             [j \in 1..wave_len |-> TableSample(j - 1, wave_len, coefficents)])

WaveLens == 0..(MaxSamples + 1)

CoeffValues == {F(0 - 1, 0), F(1, 0), F(1, 1), F(0 - 3, 1), F(2, 0)}

Coefficents == {<<a>> : a \in CoeffValues}
               \cup {<<a, b>> : a \in CoeffValues, b \in CoeffValues}

(***************************************************************************)
(* xil_in32, read_regs, read_en                                            *)
(***************************************************************************)
CMD_REG_DUMP == "P"

CMD_WAVERAM_RD == "B0"

\* print_all(), the write of str(addr) + cmd, readline(), int(data): the
\* line read back is `line`; int raises ValueError on a text that is no number
xil_in32(addr, cmd, line) ==
    /\ Constructed
    /\ tx' = <<Frame(Str(Big(addr)), cmd)>>
    /\ pend' = <<print_all(rx)>>
    /\ rx' = FALSE
    /\ op' = [name |-> "xil_in32", addr |-> addr, cmd |-> cmd, line |-> line,
              flushed |-> rx,
              raised |-> ~AllDigits(Strip(line)),
              data |-> IF AllDigits(Strip(line)) THEN Val(Strip(line)) ELSE Zero3]
    /\ UNCHANGED <<state, pdef, wram, wavetables>>

\* print_all(), the write of CMD_REG_DUMP, readlines(): every line stripped
read_regs(lines) ==
    /\ Constructed
    /\ tx' = <<Frame(<<>>, CMD_REG_DUMP)>>
    /\ pend' = <<print_all(rx)>>
    /\ rx' = FALSE
    /\ op' = [name |-> "read_regs", flushed |-> rx,
              dumps |-> [i \in 1..Len(lines) |-> Strip(lines[i])]]
    /\ UNCHANGED <<state, pdef, wram, wavetables>>

ADR_PULSE_REG_CHEN ==
    <<"A", "D", "R", "_", "P", "U", "L", "S", "E", "_", "R", "E", "G", "_",
      "C", "H", "E", "N">>

HexChars == <<"0", "1", "2", "3", "4", "5", "6", "7", "8", "9",
              "a", "b", "c", "d", "e", "f">>

UpperHexChars == <<"0", "1", "2", "3", "4", "5", "6", "7", "8", "9",
                   "A", "B", "C", "D", "E", "F">>

IsHex(c) == \E v \in 1..16 : HexChars[v] = c \/ UpperHexChars[v] = c

HexVal(c) == (CHOOSE v \in 1..16 : HexChars[v] = c \/ UpperHexChars[v] = c) - 1

\* i.split("0x")[-1]: the text after the last "0x", the whole text without one
AfterLast0x(s) ==
    LET at == {i \in 1..(Len(s) - 1) : s[i] = "0" /\ s[i + 1] = "x"}
    IN  IF at = {} THEN s
        ELSE SubSeq(s, (CHOOSE i \in at : \A k \in at : k <= i) + 2, Len(s))

\* The elements of a set of numbers in increasing order
RECURSIVE Ascending(_)
Ascending(S) ==
    IF S = {} THEN <<>>
    ELSE LET m == CHOOSE x \in S : \A y \in S : x <= y
         IN  <<m>> \o Ascending(S \ {m})

\* bin(int(enabled, 16))[2:].zfill(32)[::-1] and the positions of its "1"s:
\* the numbers of the bits set in the hexadecimal text, in increasing order
EnabledChannels(enabled) ==
    Ascending({i \in 0..(4 * Len(enabled) - 1) :
                  (HexVal(enabled[Len(enabled) - (i \div 4)]) \div (2^(i % 4))) % 2 = 1})

\* print_all(), the write of CMD_REG_DUMP, readlines(), then the first line
\* that holds ADR_PULSE_REG_CHEN; None with no such line, and int(.., 16)
\* raises ValueError on a text that is no hexadecimal number
read_en(lines) ==
    /\ Constructed
    /\ tx' = <<Frame(<<>>, CMD_REG_DUMP)>>
    /\ pend' = <<print_all(rx)>>
    /\ rx' = FALSE
    /\ LET hits == {i \in 1..Len(lines) : Contains(lines[i], ADR_PULSE_REG_CHEN)}
           first == CHOOSE i \in hits : \A k \in hits : i <= k
           enabled == Strip(AfterLast0x(lines[first]))
           isHex == enabled # <<>> /\ \A i \in 1..Len(enabled) : IsHex(enabled[i])
       IN  op' = [name |-> "read_en", flushed |-> rx,
                  found |-> hits # {},
                  raised |-> hits # {} /\ ~isHex,
                  channels |-> IF hits # {} /\ isHex
                               THEN EnabledChannels(enabled) ELSE <<>>]
    /\ UNCHANGED <<state, pdef, wram, wavetables>>

\* Lines of a register dump
L_Chen(hex) == ADR_PULSE_REG_CHEN \o <<" ", "=", " ", "0", "x">> \o hex \o <<"\r", "\n">>

L_Seq == <<"A", "D", "R", "_", "S", "E", "Q", " ", "0", "x", "1", "0", "\n">>

RegDumps == { <<>>, <<L_Seq>>,
              <<L_Seq, L_Chen(<<"0", "0", "0", "0", "0", "0", "0", "5">>)>>,
              <<L_Chen(<<"8", "0", "0", "0", "0", "0", "0", "A">>), L_Seq>>,
              <<L_Chen(<<"z">>)>> }

\* Lines read back by xil_in32: a register value, an error message
InLines == { <<"6", "5", "5", "3", "7", "\r", "\n">>, <<"0", "\n">>,
             CMD_ERR_MSG \o <<",", "5", "\n">> }

(***************************************************************************)
(* chan_en                                                                 *)
(***************************************************************************)
CMD_PULSE_CHEN == "C"

\* if isinstance(channels, int): channels = [channels]
ChanList(channel) == <<channel>>

\* The channels the loop keeps: those it does not warn about
ChanEnKept(channels) ==
    {channels[k] : k \in {j \in 1..Len(channels) :
                             ~(channels[j] > C_MAX_CHANNELS \/ channels[j] < 0)}}

\* The sum of 2^(i % 16) over a set of bit numbers
RECURSIVE SumBits(_)
SumBits(S) ==
    IF S = {} THEN 0
    ELSE LET i == CHOOSE x \in S : TRUE
         IN  2^(i % 16) + SumBits(S \ {i})

\* data |= 1 << i for every channel kept, on limbs
ChanEnData(channels) ==
    [l \in 1..3 |-> SumBits({i \in ChanEnKept(channels) : i \div 16 = l - 1})]

chan_en(channels) ==
    /\ Constructed
    /\ IF ChanEnData(channels) = Zero3
       THEN \* "No Valid channels selected!": return before the write
            /\ tx' = <<>>
            /\ pend' = <<>>
            /\ rx' = rx
       ELSE \* the write, then print_all() reads the link empty
            /\ tx' = <<Frame(Str(ChanEnData(channels)), CMD_PULSE_CHEN)>>
            /\ pend' = <<rx>>
            /\ rx' = FALSE
    /\ op' = [name |-> "chan_en", channels |-> channels,
              data |-> ChanEnData(channels)]
    /\ UNCHANGED <<state, pdef, wram, wavetables>>

\* Channels either side of both ends of the range, alone and in lists
EnChannels == {0 - 1, 0, 1, C_MAX_CHANNELS - 1, C_MAX_CHANNELS, C_MAX_CHANNELS + 1}

ChannelLists == {ChanList(c) : c \in EnChannels} \cup SeqsUpTo(EnChannels, MaxChannels)

(***************************************************************************)
(* wavecli.set_defns, wavecli.get_defns                                    *)
(***************************************************************************)
CMD_PULSE_SEQ == "s"

\* The frame set_seq writes: the sequence length, then CMD_PULSE_SEQ
set_seq(seq_length) == Frame(Str(Big(seq_length)), CMD_PULSE_SEQ)

\* The frame chan_sel writes
ChanSelFrame(channel) ==
    Frame(Str(Shl1(IF ChanSelInvalid(channel) THEN 0 ELSE channel)),
          CMD_PULSE_CHSEL)

\* for i, entry in enumerate(definitions): entry_pulse_defn(..., n_entry = i)
RECURSIVE DefnsFrames(_, _)
DefnsFrames(definitions, i) ==
    IF definitions = <<>> THEN <<>>
    ELSE LET entry == Head(definitions)
         IN  DefnFrames(entry.wave_id, entry.start_time, entry.scale_gain,
                        entry.scale_addr, entry.sustain, i)
             \o DefnsFrames(Tail(definitions), i + 1)

\* set_defns opens a session of its own, sets the sequence length, selects
\* the channel, clears its definition memory and writes definition i into
\* entry i; `pdef` is the definition memory of the channel selected
set_defns(definitions, seq_length, channel) ==
    /\ Constructed
    /\ \E talk \in Talks :
        LET hs == InitFrames("Ready")
            sel == <<set_seq(seq_length), ChanSelFrame(channel)>>
            clr == ClearDefnFrames
            ent == DefnsFrames(definitions, 0)
        IN  /\ tx' = hs \o sel \o clr \o ent
            /\ pdef' = DevApply(pdef, clr \o ent, CMD_PDEFN_WR)
            \* rx at the frames: the version query, echo off after
            \* readlines(), set_seq and chan_sel (each drained at its end),
            \* the clear (drained), the entries with no read between them
            /\ pend' = <<rx, FALSE, talk, FALSE>>
                       \o Unread(FALSE, Len(clr), talk)
                       \o Unread(FALSE, Len(ent), talk)
            /\ rx' = FALSE
    /\ op' = [name |-> "set_defns", definitions |-> definitions,
              seq_length |-> seq_length, channel |-> channel]
    /\ UNCHANGED <<state, wram, wavetables>>

UntilZero_Skip(pdefs) == SelectSeq(pdefs, LAMBDA c : ~SumIsZero(c))

\* for i in pdefs: if sum(list(i.values())) == 0: break; else append
RECURSIVE UntilZero(_)
UntilZero(pdefs) ==
    IF pdefs = <<>> \/ SumIsZero(Head(pdefs)) THEN <<>>
    ELSE <<Head(pdefs)>> \o UntilZero(Tail(pdefs))

\* get_defns opens a session of its own, selects the channel and reads its
\* whole definition memory with read_pulse_defn()
get_defns(channel) ==
    /\ Constructed
    /\ \E talk \in Talks :
          /\ tx' = InitFrames("Ready")
                   \o <<ChanSelFrame(channel), ReadQuery(C_NUM_WAVEFORM, 0)>>
          /\ pend' = <<rx, FALSE, talk, print_all(FALSE)>>
    /\ rx' = FALSE
    /\ op' = [name |-> "get_defns", channel |-> channel,
              raised |-> ReadPulse(pdef, C_NUM_WAVEFORM, 0).raised,
              pulse_defn |-> UntilZero(ReadPulse(pdef, C_NUM_WAVEFORM, 0).configs)]
    /\ UNCHANGED <<state, pdef, wram, wavetables>>

\* Definitions: one whose scale fields the registers hold exactly, one whose
\* scale fields they do not, one with a start time below the minimum and the
\* largest sustain, one that is not zero but below one step of both scale
\* fields, and the all-zero one
CfgExact == [wave_id |-> Wave1, start_time |-> 9, scale_gain |-> One,
             scale_addr |-> One, sustain |-> 7]
CfgFine == [wave_id |-> <<2, 3, 0>>, start_time |-> PULSE_START_MIN,
            scale_gain |-> F(98307, 17), scale_addr |-> F(1031, 10),
            sustain |-> 0]
CfgEarly == [wave_id |-> <<B - 1, B - 1, 0>>, start_time |-> 3,
             scale_gain |-> F(1, 1), scale_addr |-> F(3, 1),
             sustain |-> 2^17 - 1]
CfgTiny == [wave_id |-> Zero3, start_time |-> 0, scale_gain |-> F(3, 17),
            scale_addr |-> F(1, 9), sustain |-> 0]
CfgZero == [wave_id |-> Zero3, start_time |-> 0, scale_gain |-> F(0, 0),
            scale_addr |-> F(0, 0), sustain |-> 0]

Configs == {CfgExact, CfgFine, CfgEarly, CfgTiny, CfgZero}

Definitions == SeqsUpTo(Configs, C_NUM_WAVEFORM)

(***************************************************************************)
(* Specifications                                                          *)
(***************************************************************************)
Connect == \E portOk \in BOOLEAN, lines \in Handshakes : QlaserFPGA_init(portOk, lines)

ConnectGood == \E lines \in GoodHandshakes : QlaserFPGA_init(TRUE, lines)

ChanSel == \E channel \in ChannelInputs : chan_sel(channel)

ReadErrs == \E erros \in ErrReplies : read_errs(erros)

\* Channel operations of a connected session
NextChan == ConnectGood \/ ChanSel \/ ReadErrs

SpecChan == Init /\ [][NextChan]_vars

\* One call of write_wave_table on a connected session, its arguments drawn
\* from StartAddrs, WaveValues and both settings of all_chan
InitWave ==
    /\ state = "Ready"
    /\ tx = InitFrames("Ready")
    /\ pdef = [a \in PdefRegs |-> Zero3]
    /\ wram = [a \in WramRegs |-> Zero3]
    /\ op \in {[name |-> "call", start_addr |-> a, values |-> v, all_chan |-> c] :
                  a \in StartAddrs, v \in WaveValues, c \in BOOLEAN}
    /\ rx = FALSE
    /\ pend = <<FALSE, FALSE>>
    /\ wavetables = <<>>

WaveCall ==
    /\ op.name = "call"
    /\ write_wave_table(op.start_addr, op.values, op.all_chan)

NextWave == WaveCall

SpecWave == InitWave /\ [][NextWave]_vars

\* One call of entry_pulse_defn on a connected session, its arguments drawn
\* from RichDefs and its memory from EncRams, then reads of the memory
InitEnc ==
    /\ state = "Ready"
    /\ tx = InitFrames("Ready")
    /\ pdef \in EncRams
    /\ wram = [a \in WramRegs |-> Zero3]
    /\ op \in {[name |-> "call", d |-> d, n_entry |-> e] : d \in RichDefs, e \in Entries}
    /\ rx = FALSE
    /\ pend = <<FALSE, FALSE>>
    /\ wavetables = <<>>

EncCall ==
    /\ op.name = "call"
    /\ entry_pulse_defn(op.d.n_wave, op.d.n_start_time, op.d.n_scale_gain,
                        op.d.n_scale_addr, op.d.n_flattop, op.n_entry)

EncRead ==
    /\ op.name = "entry_pulse_defn"
    /\ read_pulse_defn(C_NUM_WAVEFORM, 0)

NextEnc == EncCall \/ EncRead

SpecEnc == InitEnc /\ [][NextEnc]_vars

\* Lines the instrument sends in place of data: error messages
ErrLines == { CMD_ERR_MSG \o <<"\r", "\n">>,
              CMD_ERR_MSG \o <<" ", "b", "a", "d", " ", "7", "\n">>,
              CMD_ERR_MSG \o <<",", "5", "\n">> }

\* Waveform memories: empty, and holding the largest samples
WaveRams == { [a \in WramRegs |-> Zero3],
              [a \in WramRegs |-> <<B - 1 - 2 * a, B - 2 - 2 * a, 0>>] }

\* One call of read_wave_table on a connected session, its arguments drawn
\* from around the capacity; the instrument answers with the data or with an
\* error message
InitRead ==
    /\ state = "Ready"
    /\ tx = InitFrames("Ready")
    /\ pdef = [a \in PdefRegs |-> Zero3]
    /\ wram \in WaveRams
    /\ op \in {[name |-> "call", start_addr |-> a, length |-> n] :
                  a \in StartAddrs, n \in StartAddrs}
    /\ rx \in Talks
    /\ pend = <<FALSE, FALSE>>
    /\ wavetables = <<>>

ReadCall ==
    /\ op.name = "call"
    /\ \E line \in IF ReadWaveInvalid(op.start_addr, op.length) THEN {<<>>}
                    ELSE {DevWaveReply(wram, ReadWaveQuery(op.start_addr, op.length))}
                         \cup ErrLines :
          read_wave_table(op.start_addr, op.length, line)

NextRead == ReadCall

SpecRead == InitRead /\ [][NextRead]_vars

\* Pulse definitions written to a connected session with the entry left to
\* the scan or given, and clears, in any order
InitAuto ==
    /\ state = "Ready"
    /\ tx = InitFrames("Ready")
    /\ pdef = [a \in PdefRegs |-> Zero3]
    /\ wram = [a \in WramRegs |-> Zero3]
    /\ op = [name |-> "none"]
    /\ rx = FALSE
    /\ pend = <<FALSE, FALSE>>
    /\ wavetables = <<>>

AutoWrite ==
    \E d \in AutoDefs :
        entry_pulse_defn(d.n_wave, d.n_start_time, d.n_scale_gain,
                         d.n_scale_addr, d.n_flattop, None)

SlotWrite ==
    \E d \in AutoDefs, n_entry \in 0..(C_NUM_WAVEFORM - 1) :
        entry_pulse_defn(d.n_wave, d.n_start_time, d.n_scale_gain,
                         d.n_scale_addr, d.n_flattop, n_entry)

NextAuto == AutoWrite \/ SlotWrite \/ clear_ram_defn

SpecAuto == InitAuto /\ [][NextAuto]_vars

\* Register writes: addresses and data at and past the widths of the frame
OutAddrs == {0 - 1, 0, 1, MaxSlots, B - 1, B, B + 1}

OutData == {Zero3, <<1, 0, 0>>, <<0, 1, 0>>, <<0, 2^15, 0>>,
            <<B - 1, B - 1, 0>>, <<0, 0, 1>>, <<1, 0, 1>>}

OutCmds == {CMD_PDEFN_WR, CMD_WAVERAM_WR, CMD_DC_WR}

OutCalls == {[name |-> "call", addr |-> a, data |-> d, cmd |-> c] :
                a \in OutAddrs, d \in OutData, c \in OutCmds}

\* One call of xil_out32 on a connected session
InitOut ==
    /\ state = "Ready"
    /\ tx = InitFrames("Ready")
    /\ pdef = [a \in PdefRegs |-> Zero3]
    /\ wram = [a \in WramRegs |-> Zero3]
    /\ op \in OutCalls
    /\ rx \in Talks
    /\ pend = <<FALSE, FALSE>>
    /\ wavetables = <<>>

OutCall ==
    /\ op.name = "call"
    /\ XilOut32(op.addr, op.data, op.cmd)

NextOut == OutCall

SpecOut == InitOut /\ [][NextOut]_vars

\* Start addresses at both ends of the instrument's waveform memory, and past it
WideAddrs == {0, 1, 2, LengthWaveform - 2, LengthWaveform, LengthWaveform + 2}

\* The storage: nothing recorded, and waves (length, address) recorded from
\* address 0 on: (2, 0); (3, 0); (2, 0) and (1, 2); one wave up to the end
\* of the memory
Storages == { <<>>, <<2 * (2^16)>>, <<3 * (2^16)>>,
              <<2 * (2^16), 2^16 + 2>>,
              <<C_LENGTH_WAVEFORM * (2^16)>> }

\* One wave written to a connected session, by write_wave_table anywhere in
\* the instrument's memory or by add_wave after the waves of the storage
InitId ==
    /\ state = "Ready"
    /\ tx = InitFrames("Ready")
    /\ pdef = [a \in PdefRegs |-> Zero3]
    /\ wram = [a \in WramRegs |-> Zero3]
    /\ op \in {[name |-> "call", start_addr |-> a, values |-> v, all_chan |-> c] :
                  a \in WideAddrs, v \in WaveValues, c \in BOOLEAN}
               \cup {[name |-> "call_add", values |-> v, keep_previous |-> k] :
                        v \in WaveValues, k \in BOOLEAN}
    /\ rx = FALSE
    /\ pend = <<FALSE, FALSE>>
    /\ wavetables \in Storages

AddCall ==
    /\ op.name = "call_add"
    /\ add_wave(op.values, op.keep_previous)

NextId == WaveCall \/ AddCall

SpecId == InitId /\ [][NextId]_vars

\* Both memories in use, then clears, definitions written with the entry
\* left to the scan, and reads of the whole waveform memory
InitClear ==
    /\ state = "Ready"
    /\ tx = InitFrames("Ready")
    /\ pdef = RamWith(DefNominal, 0..(C_NUM_WAVEFORM - 1))
    /\ wram = [a \in WramRegs |-> <<B - 1 - 2 * a, B - 2 - 2 * a, 0>>]
    /\ op = [name |-> "none"]
    /\ rx = FALSE
    /\ pend = <<FALSE, FALSE>>
    /\ wavetables = <<>>

ReadAll ==
    read_wave_table(0, C_LENGTH_WAVEFORM,
                    DevWaveReply(wram, ReadWaveQuery(0, C_LENGTH_WAVEFORM)))

NextClear == clear_ram_defn \/ clear_wave_table \/ AutoWrite \/ ReadAll

SpecClear == InitClear /\ [][NextClear]_vars

\* A whole session: construction, then any operation in any order
FewChannels == {0 - 1, 0, C_MAX_CHANNELS}

FewErrReplies == {<<>>, <<<<"X", Shl1(0)>>>>}

Next ==
    \/ Connect
    \/ \E channel \in FewChannels : chan_sel(channel)
    \/ \E erros \in FewErrReplies : read_errs(erros)
    \/ \E start_addr \in {0, 1}, all_chan \in BOOLEAN :
          write_wave_table(start_addr, <<1, 2, 3>>, all_chan)
    \/ \E d \in FewDefs, n_entry \in {None, 0} :
          entry_pulse_defn(d.n_wave, d.n_start_time, d.n_scale_gain,
                           d.n_scale_addr, d.n_flattop, n_entry)
    \/ clear_ram_defn
    \/ clear_wave_table
    \/ \E keep_previous \in BOOLEAN : add_wave(<<1, 2, 3>>, keep_previous)
    \/ \E data \in {<<1, 0, 1>>} : XilOut32(B + 1, data, CMD_DC_WR)
    \/ \E start_addr \in {0, 0 - 1}, line \in ErrLines :
          read_wave_table(start_addr, 0, line)
    \/ \E n_entry \in {1, C_NUM_WAVEFORM} : read_pulse_defn(n_entry, 0)

Spec == Init /\ [][Next]_vars

\* One call of vdac_to_hex, its arguments drawn from Voltages, Vrefs and
\* VrefTypes
InitDac ==
    /\ state = "Ready"
    /\ tx = InitFrames("Ready")
    /\ pdef = [a \in PdefRegs |-> Zero3]
    /\ wram = [a \in WramRegs |-> Zero3]
    /\ op \in {[name |-> "call_dac", voltage |-> v, vref |-> r, vref_type |-> t] :
                  v \in Voltages, r \in Vrefs, t \in VrefTypes}
    /\ rx = FALSE
    /\ pend = <<FALSE, FALSE>>
    /\ wavetables = <<>>

DacCall ==
    /\ op.name = "call_dac"
    /\ op' = [name |-> "vdac_to_hex", voltage |-> op.voltage, vref |-> op.vref,
              vref_type |-> op.vref_type,
              dac_code |-> vdac_to_hex(op.voltage, op.vref, op.vref_type)]
    /\ UNCHANGED <<state, tx, pdef, wram, rx, pend, wavetables>>

NextDac == DacCall

SpecDac == InitDac /\ [][NextDac]_vars

\* One table built as load_waves builds it, the wave length drawn from
\* WaveLens and the coefficients from Coefficents
InitTable ==
    /\ state = "Ready"
    /\ tx = InitFrames("Ready")
    /\ pdef = [a \in PdefRegs |-> Zero3]
    /\ wram = [a \in WramRegs |-> Zero3]
    /\ op \in {[name |-> "call_table", wave_len |-> n, coefficents |-> c] :
                  n \in WaveLens, c \in Coefficents}
    /\ rx = FALSE
    /\ pend = <<FALSE, FALSE>>
    /\ wavetables = <<>>

TableCall ==
    /\ op.name = "call_table"
    /\ op' = [name |-> "raw_table", wave_len |-> op.wave_len,
              coefficents |-> op.coefficents,
              raw_table |-> raw_table(op.wave_len, op.coefficents)]
    /\ UNCHANGED <<state, tx, pdef, wram, rx, pend, wavetables>>

NextTable == TableCall

SpecTable == InitTable /\ [][NextTable]_vars

\* Memories in which every slot differs from every other
SlotRams == {[a \in PdefRegs |-> <<10 + a, 1 + a, 0>>]} \cup EncRams

\* One call of read_pulse_defn on a connected session, the number of entries
\* and the first entry drawn from the range checks' both sides
InitDefn ==
    /\ state = "Ready"
    /\ tx = InitFrames("Ready")
    /\ pdef \in SlotRams
    /\ wram = [a \in WramRegs |-> Zero3]
    /\ op \in {[name |-> "call_read", n_entry |-> n, start |-> st] :
                  n \in (0 - 1)..(C_NUM_WAVEFORM + 1),
                  st \in (0 - 1)..(C_NUM_WAVEFORM + 1)}
    /\ rx = FALSE
    /\ pend = <<FALSE, FALSE>>
    /\ wavetables = <<>>

DefnCall ==
    /\ op.name = "call_read"
    /\ read_pulse_defn(op.n_entry, op.start)

NextDefn == DefnCall

SpecDefn == InitDefn /\ [][NextDefn]_vars

\* A connected session on which writes that the instrument may answer and
\* the operations that parse an answer follow each other in any order
InitDrain ==
    /\ state = "Ready"
    /\ tx = InitFrames("Ready")
    /\ pdef = RamWith(DefNominal, {0})
    /\ wram = [a \in WramRegs |-> <<B - 1 - 2 * a, B - 2 - 2 * a, 0>>]
    /\ op = [name |-> "none"]
    /\ rx \in Talks
    /\ pend = <<FALSE, FALSE>>
    /\ wavetables = <<>>

DrainWrites ==
    \/ \E data \in {<<1, 0, 1>>} : XilOut32(1, data, CMD_WAVERAM_WR)
    \/ \E all_chan \in BOOLEAN : write_wave_table(0, <<1, 2, 3>>, all_chan)

DrainReads ==
    \/ \E addr \in {0, 1}, line \in InLines : xil_in32(addr, CMD_WAVERAM_RD, line)
    \/ \E lines \in RegDumps : read_regs(lines)
    \/ \E lines \in RegDumps : read_en(lines)
    \/ \E erros \in FewErrReplies : read_errs(erros)
    \/ \E start_addr \in {0, 0 - 1}, line \in ErrLines :
          read_wave_table(start_addr, 0, line)
    \/ \E n_entry \in {1, C_NUM_WAVEFORM} : read_pulse_defn(n_entry, 0)

NextDrain == DrainWrites \/ DrainReads

SpecDrain == InitDrain /\ [][NextDrain]_vars

\* Waves added one after the other: the first call clears the table
\* (keep_previous=False), the others keep what the storage holds
InitAlloc ==
    /\ state = "Ready"
    /\ tx = InitFrames("Ready")
    /\ pdef = [a \in PdefRegs |-> Zero3]
    /\ wram = [a \in WramRegs |-> Zero3]
    /\ op = [name |-> "none"]
    /\ rx = FALSE
    /\ pend = <<FALSE, FALSE>>
    /\ wavetables = <<>>

AllocFirst ==
    /\ wavetables = <<>>
    /\ \E values \in WaveValues : add_wave(values, FALSE)

AllocNext ==
    /\ Len(wavetables) < MaxWaves
    /\ \E values \in WaveValues : add_wave(values, TRUE)

NextAlloc == AllocFirst \/ AllocNext

SpecAlloc == InitAlloc /\ [][NextAlloc]_vars

\* Calls of chan_en on a connected session
InitEn ==
    /\ state = "Ready"
    /\ tx = InitFrames("Ready")
    /\ pdef = [a \in PdefRegs |-> Zero3]
    /\ wram = [a \in WramRegs |-> Zero3]
    /\ op = [name |-> "none"]
    /\ rx \in Talks
    /\ pend = <<FALSE, FALSE>>
    /\ wavetables = <<>>

ChanEn == \E channels \in ChannelLists : chan_en(channels)

NextEn == ChanEn

SpecEn == InitEn /\ [][NextEn]_vars

\* One call of set_defns on a definition memory that is empty or full, then
\* get_defns on the same channel
InitDefns ==
    /\ state = "Ready"
    /\ tx = InitFrames("Ready")
    /\ pdef \in {RamWith(DefNominal, {}),
                 RamWith(DefNominal, 0..(C_NUM_WAVEFORM - 1))}
    /\ wram = [a \in WramRegs |-> Zero3]
    /\ op \in {[name |-> "call_set", definitions |-> d, seq_length |-> 100,
                channel |-> c] :
                  d \in Definitions, c \in {0, C_MAX_CHANNELS - 1}}
    /\ rx = FALSE
    /\ pend = <<FALSE, FALSE>>
    /\ wavetables = <<>>

SetCall ==
    /\ op.name = "call_set"
    /\ set_defns(op.definitions, op.seq_length, op.channel)

GetCall ==
    /\ op.name = "set_defns"
    /\ get_defns(op.channel)

NextDefns == SetCall \/ GetCall

SpecDefns == InitDefns /\ [][NextDefns]_vars

(***************************************************************************)
(* Properties                                                              *)
(***************************************************************************)
IsPdefWrite(f) == f.cmd = CMD_PDEFN_WR

\* The pulse-definition register writes among the frames of the last operation
PdefWrites(frames) == SelectSeq(frames, IsPdefWrite)

\* int(x * 2**bits), written out for the properties
Fix(x, bits) ==
    LET p == IF x.dexp >= bits THEN x.num ELSE x.num * (2^(bits - x.dexp))
        q == IF x.dexp >= bits THEN 2^(x.dexp - bits) ELSE 1
    IN  IF p >= 0 THEN p \div q ELSE -((-p) \div q)

\* round(x * 2**bits): to nearest, a tie to the even neighbour
Round(x, bits) ==
    LET p == IF x.dexp >= bits THEN x.num ELSE x.num * (2^(bits - x.dexp))
        q == IF x.dexp >= bits THEN 2^(x.dexp - bits) ELSE 1
        lo == p \div q
        r == p - lo * q
    IN  IF 2 * r < q THEN lo
        ELSE IF 2 * r > q THEN lo + 1
        ELSE IF lo % 2 = 0 THEN lo ELSE lo + 1

\* |x - y| <= 2^-k for floats x, y
Close(x, y, k) ==
    LET e == IF x.dexp >= y.dexp THEN x.dexp ELSE y.dexp
        d == x.num * (2^(e - x.dexp)) - y.num * (2^(e - y.dexp))
    IN  (IF d >= 0 THEN d ELSE -d) * (2^k) <= 2^e

\* C1: write_wave_table with an odd start address fails (returns nothing)
\* and writes no frame to the link, whatever the samples and all_chan are.
C1_OddStartSendsNothing ==
    (op.name = "write_wave_table" /\ op.start_addr % 2 = 1)
        => (tx = <<>> /\ op.ret = None)

C1_Witness ==
    /\ op.name = "write_wave_table"
    /\ op.start_addr % 2 = 1
    /\ op.all_chan
    /\ Len(op.values) = MaxSamples
    /\ tx = <<>>

\* C2 (as claimed): chan_sel accepts exactly the channels 0..C_MAX_CHANNELS-1
\* and, for any other channel, fails and writes no frame to the link.
C2_Claim ==
    op.name = "chan_sel" =>
        IF op.channel \in 0..(C_MAX_CHANNELS - 1)
        THEN ~op.error /\ tx = <<Frame(Str(Shl1(op.channel)), CMD_PULSE_CHSEL)>>
        ELSE op.error /\ tx = <<>>

\* The channels one kind is reported for
ReportedChannels(kind) ==
    {op.reports[i][2] : i \in {k \in 1..Len(op.reports) : op.reports[k][1] = kind}}

\* C3 (as amended): read_errs reports, for every kind and 32-bit mask, each
\* set bit j (bit 0 the least significant) as channel j, once; a mask whose
\* only set bit is the least significant one reports channel 0.
C3_BitIsChannel ==
    op.name = "read_errs" =>
        /\ \A k \in 1..Len(op.erros) :
              ReportedChannels(op.erros[k][1]) =
                  {j \in 0..(C_MAX_CHANNELS - 1) : Bit(op.erros[k][2], j) = 1}
        /\ Len(op.reports) =
              Cardinality({<<k, j>> \in (1..Len(op.erros)) \X (0..(C_MAX_CHANNELS - 1)) :
                              Bit(op.erros[k][2], j) = 1})

\* C3 (as claimed): each set bit j is reported as channel C_MAX_CHANNELS-1-j.
C3_Claim ==
    op.name = "read_errs" =>
        \A k \in 1..Len(op.erros) :
            ReportedChannels(op.erros[k][1]) =
                {C_MAX_CHANNELS - 1 - j : j \in {b \in 0..(C_MAX_CHANNELS - 1) :
                                                    Bit(op.erros[k][2], b) = 1}}

C3_Witness ==
    /\ op.name = "read_errs"
    /\ op.erros = <<<<"X", Shl1(0)>>>>
    /\ op.reports = <<<<"X", 0>>>>

\* Both version tokens are in the joined text of the stripped lines
BothTokens(lines) ==
    LET v == Join([i \in 1..Len(lines) |-> Strip(lines[i])], <<",", " ">>)
    IN  Contains(v, FPGA_VERSION) /\ Contains(v, FIRMWARE_VERSION)

\* The joined text is empty: no line, or one line that is blank once stripped
NoText(lines) ==
    Len(lines) = 0 \/ (Len(lines) = 1 /\ Strip(lines[1]) = <<>>)

\* C4 (as amended): the constructor ends Ready exactly when both tokens are
\* in the joined response; otherwise NoDevice when the joined response is
\* empty (no line, or a single blank line) and VersionMismatch when it is not.
C4_Handshake ==
    (op.name = "__init__" /\ op.portOk) =>
        /\ (state = "Ready") = BothTokens(op.lines)
        /\ (state = "NoDevice") = (~BothTokens(op.lines) /\ NoText(op.lines))
        /\ (state = "VersionMismatch") = (~BothTokens(op.lines) /\ ~NoText(op.lines))

\* C4 (as claimed): NoDevice exactly for zero lines, VersionMismatch for one
\* or more lines lacking a token, Ready only with both tokens.
C4_Claim ==
    (op.name = "__init__" /\ op.portOk) =>
        /\ (state = "Ready") = BothTokens(op.lines)
        /\ (state = "NoDevice") = (Len(op.lines) = 0)
        /\ (state = "VersionMismatch") = (~BothTokens(op.lines) /\ Len(op.lines) >= 1)

C4_Witness ==
    /\ op.name = "__init__"
    /\ op.lines = <<>>
    /\ op.portOk
    /\ state = "NoDevice"

\* C5: the version query is the first frame of a session; until the version
\* check has passed no other frame is written; after VersionMismatch or
\* NoDevice the session takes no further step.
C5_Lifecycle ==
    /\ [](state = "Disconnected" => tx = <<>>)
    /\ [][ /\ (state = "Disconnected" /\ tx' # <<>>)
                => tx'[1] = Frame(<<>>, CMD_VERSIONS)
           /\ state' # "Ready"
                => \A i \in 1..Len(tx') : tx'[i] = Frame(<<>>, CMD_VERSIONS)
           /\ state \notin {"VersionMismatch", "NoDevice"} ]_vars

C5_Witness ==
    /\ state = "VersionMismatch"
    /\ tx = <<Frame(<<>>, CMD_VERSIONS)>>

\* The number a frame's text carries, as the limbs <<data low, data high, address>>
Carried(f) == Val(f.text)

\* C6: entry_pulse_defn writes PULSE_START_MIN into the start-time register
\* of entry 0 when the given start time is below it, whether entry 0 was
\* given or chosen by the scan; for any other entry the given start time is
\* written, masked to 24 bits.
C6_StartTimeMin ==
    (op.name = "entry_pulse_defn" /\ ~op.raised) =>
        LET w == PdefWrites(tx)
        IN  /\ Len(w) = 4
            /\ Carried(w[1]) =
                 IF op.n_entry = 0 /\ op.n_start_time < PULSE_START_MIN
                 THEN <<PULSE_START_MIN, 0, 0>>
                 ELSE << (op.n_start_time % (2^24)) % B,
                         (op.n_start_time % (2^24)) \div B,
                         4 * op.n_entry >>

C6_Witness ==
    /\ op.name = "entry_pulse_defn"
    /\ op.auto
    /\ op.n_entry = 0
    /\ op.n_start_time = 3
    /\ Carried(PdefWrites(tx)[1]) = <<PULSE_START_MIN, 0, 0>>

\* C7 (as claimed): slot 0 is empty, or its start-time register is at least
\* PULSE_START_MIN, after any writes and clears.
C7_Claim ==
    \/ \A r \in 0..3 : pdef[r] = Zero3
    \/ pdef[0][2] > 0
    \/ pdef[0][1] >= PULSE_START_MIN

\* The arguments of a pulse definition are in range
InRange(o) ==
    /\ o.n_start_time >= 0 /\ o.n_start_time <= 2^24 - 1
    /\ o.n_entry = 0 => o.n_start_time >= PULSE_START_MIN
    /\ o.n_wave[3] = 0
    /\ o.n_scale_gain.num > 0 /\ o.n_scale_gain.num <= 2^o.n_scale_gain.dexp
    /\ o.n_scale_addr.num >= 0
    /\ Fix(o.n_scale_addr, BIT_FRAC) <= 2^16 - 1
    /\ o.n_flattop >= 0 /\ o.n_flattop <= 2^17 - 1

\* C8: a definition in range, written by entry_pulse_defn and read back by
\* read_pulse_defn, comes back with the same start time, wave id and sustain
\* and with gain and time factor within 2^-BIT_FRAC of the ones written.
C8_RoundTrip ==
    [][ (op.name = "entry_pulse_defn" /\ ~op.raised /\ InRange(op)
         /\ op'.name = "read_pulse_defn")
        => /\ ~op'.raised
           /\ Len(op'.configs) > op.n_entry
           /\ LET c == op'.configs[op.n_entry + 1]
              IN  /\ c.start_time = op.n_start_time
                  /\ c.wave_id = op.n_wave
                  /\ c.sustain = op.n_flattop
                  /\ Close(c.scale_gain, op.n_scale_gain, BIT_FRAC)
                  /\ Close(c.scale_addr, op.n_scale_addr, BIT_FRAC) ]_vars

C8_Witness ==
    /\ op.name = "read_pulse_defn"
    /\ ~op.raised
    /\ Len(op.configs) = C_NUM_WAVEFORM
    /\ op.configs[C_NUM_WAVEFORM].scale_gain = F(24576, BIT_FRAC_GAIN)
    /\ op.configs[C_NUM_WAVEFORM].scale_addr = F(257, BIT_FRAC)
    /\ op.configs[C_NUM_WAVEFORM].start_time = 2^24 - 1
    /\ op.configs[C_NUM_WAVEFORM].wave_id = <<B - 1, B - 1, 0>>

\* C9 (as amended): entry_pulse_defn for entry e writes exactly four
\* pulse-definition registers, 4e, 4e+1, 4e+2, 4e+3 in this order, with the
\* start time (PULSE_START_MIN in place of a smaller one for entry 0) masked
\* to 24 bits, the wave id, the packed gain and time factor, and the sustain
\* masked to 17 bits; the registers of every other slot keep their value.
C9_FourWrites ==
    [][ (op'.name = "entry_pulse_defn" /\ ~op'.raised)
        => LET e == op'.n_entry
               w == PdefWrites(tx')
               t == IF e = 0 /\ op'.n_start_time < PULSE_START_MIN
                    THEN PULSE_START_MIN ELSE op'.n_start_time % (2^24)
               s == op'.n_flattop % (2^17)
           IN  /\ Len(w) = 4
               /\ Carried(w[1]) = <<t % B, t \div B, 4 * e>>
               /\ Carried(w[2]) = <<op'.n_wave[1], op'.n_wave[2], 4 * e + 1>>
               /\ Carried(w[3]) = << Fix(op'.n_scale_addr, BIT_FRAC) % B,
                                     Fix(op'.n_scale_gain, BIT_FRAC_GAIN) % B,
                                     4 * e + 2 >>
               /\ Carried(w[4]) = <<s % B, s \div B, 4 * e + 3>>
               /\ \A i \in 1..Len(tx') :
                     tx'[i].cmd \in {CMD_PDEFN_WR, CMD_RD_PDEFN}
               /\ \A r \in PdefRegs : r \div 4 # e => pdef'[r] = pdef[r] ]_vars

\* C9 (as claimed): the first of the four writes carries startTime & 0xFFFFFF,
\* the given start time, for every entry.
C9_Claim ==
    (op.name = "entry_pulse_defn" /\ ~op.raised) =>
        /\ Len(PdefWrites(tx)) = 4
        /\ Carried(PdefWrites(tx)[1]) =
              << (op.n_start_time % (2^24)) % B,
                 (op.n_start_time % (2^24)) \div B,
                 4 * op.n_entry >>

C9_Witness ==
    /\ op.name = "entry_pulse_defn"
    /\ ~op.auto
    /\ op.n_entry = C_NUM_WAVEFORM - 1
    /\ Len(tx) = 4
    /\ \A k \in 1..4 : Carried(tx[k])[3] = 4 * op.n_entry + k - 1

\* C10 (as amended): the third register is
\* ((int(gain * 2^15) & 0xFFFF) << 16) | (int(timeFactor * 2^8) & 0xFFFF):
\* both fields are truncated toward zero, not rounded.
C10_Truncates ==
    (op.name = "entry_pulse_defn" /\ ~op.raised) =>
        /\ Carried(PdefWrites(tx)[3])[2] = Fix(op.n_scale_gain, BIT_FRAC_GAIN) % B
        /\ Carried(PdefWrites(tx)[3])[1] = Fix(op.n_scale_addr, BIT_FRAC) % B

\* C10 (as claimed): both fields are rounded to nearest.
C10_Claim ==
    (op.name = "entry_pulse_defn" /\ ~op.raised) =>
        /\ Carried(PdefWrites(tx)[3])[2] = Round(op.n_scale_gain, BIT_FRAC_GAIN) % B
        /\ Carried(PdefWrites(tx)[3])[1] = Round(op.n_scale_addr, BIT_FRAC) % B

C10_Witness ==
    /\ op.name = "entry_pulse_defn"
    /\ op.n_scale_gain = F(98307, 17)
    /\ op.n_scale_addr = F(1031, 10)
    /\ Carried(PdefWrites(tx)[3]) = <<257, 24576, 4 * op.n_entry + 2>>

\* The slots of memory `ram` whose four registers are all zero
EmptySlots(ram) ==
    {e \in 0..(C_NUM_WAVEFORM - 1) : \A r \in 0..3 : ram[4 * e + r] = Zero3}

\* C11: entry_pulse_defn with the entry unspecified writes into the lowest
\* slot whose four registers are all zero, and into slot 0 only when no slot
\* is empty; no register of another slot changes, so a non-empty slot is not
\* overwritten while an empty one exists.
C11_AutoAllocation ==
    [][ (op'.name = "entry_pulse_defn" /\ op'.auto)
        => LET empty == EmptySlots(pdef)
           IN  /\ ~op'.raised
               /\ op'.n_entry = IF empty = {} THEN 0
                                ELSE CHOOSE e \in empty : \A k \in empty : e <= k
               /\ Len(PdefWrites(tx')) = 4
               /\ \A k \in 1..4 :
                     Carried(PdefWrites(tx')[k])[3] = 4 * op'.n_entry + k - 1
               /\ \A r \in PdefRegs :
                     r \div 4 # op'.n_entry => pdef'[r] = pdef[r] ]_vars

\* The scan filled the hole at slot 1 between two slots in use
C11_Witness ==
    /\ op.name = "entry_pulse_defn"
    /\ op.auto
    /\ op.n_entry = 1
    /\ op.n_flattop = 1
    /\ EmptySlots(pdef) = {}
    /\ pdef[7] = <<1, 0, 0>>

IsWaveWrite(f) == f.cmd = CMD_WAVERAM_WR

\* The waveform-RAM register writes among the frames of the last operation
WaveWrites(frames) == SelectSeq(frames, IsWaveWrite)

\* C12: write_wave_table with an even start address s and n 16-bit samples
\* issues exactly ceil(n/2) waveform-RAM writes, the k-th (from 0) to register
\* s/2 + k with samples[2k] in the low half and samples[2k+1] in the high
\* half, 0 for the sample missing when n is odd; the instrument's registers
\* s/2 .. s/2 + ceil(n/2) - 1 take these values and no other register changes.
C12_PairWrites ==
    [][ (op'.name = "write_wave_table" /\ op'.start_addr % 2 = 0)
        => LET w == WaveWrites(tx')
               v == op'.values
               n == Len(v)
               r0 == op'.start_addr \div 2
           IN  /\ Len(w) = (n + 1) \div 2
               /\ \A k \in 1..Len(w) :
                     Carried(w[k]) =
                         << v[2 * k - 1], IF 2 * k <= n THEN v[2 * k] ELSE 0,
                            r0 + k - 1 >>
               /\ \A i \in 1..Len(tx') :
                     tx'[i].cmd = CMD_WAVERAM_WR
                     \/ (i = 1 /\ op'.all_chan /\ tx'[i].cmd = CMD_PULSE_CHSEL)
               /\ \A r \in WramRegs :
                     wram'[r] =
                         IF r - r0 \in 0..(Len(w) - 1)
                         THEN << v[2 * (r - r0) + 1],
                                 IF 2 * (r - r0) + 2 <= n THEN v[2 * (r - r0) + 2] ELSE 0,
                                 0 >>
                         ELSE wram[r] ]_vars

C12_Witness ==
    /\ op.name = "write_wave_table"
    /\ op.start_addr = 2
    /\ op.values = <<B - 1, B - 2, B - 3>>
    /\ Len(WaveWrites(tx)) = 2
    /\ wram[0] = Zero3
    /\ wram[1] = <<B - 1, B - 2, 0>>
    /\ wram[2] = <<B - 3, 0, 0>>

\* C13 (as claimed): no frame is written to the link while response lines of
\* earlier frames wait on it unread.
C13_Claim ==
    \A i \in 1..Len(pend) : ~pend[i]

\* C14 (as claimed): a response line containing the error marker contributes
\* no value to the result of a read.
C14_Claim ==
    (op.name = "read_wave_table" /\ Contains(op.line, CMD_ERR_MSG))
        => op.values = <<>>

\* The samples of memory `ram` from address a, n of them
Samples(ram, a, n) == [k \in 1..n |-> Big(DevSample(ram, a + k - 1))]

\* C15: read_wave_table with start < 0, length < 0 or start + length above
\* C_LENGTH_WAVEFORM fails and writes nothing to the link; otherwise it writes
\* the one query frame, reads one line and returns the numbers of that line:
\* the samples asked for when the line is the instrument's data.
C15_ReadWaveTable ==
    op.name = "read_wave_table" =>
        IF op.start_addr < 0 \/ op.length < 0
           \/ op.start_addr + op.length > C_LENGTH_WAVEFORM
        THEN op.failed /\ tx = <<>> /\ op.nread = 0
        ELSE /\ ~op.failed
             /\ Len(tx) = 1
             /\ tx[1].cmd = CMD_RD_WAVE
             /\ Val(tx[1].text) = <<op.start_addr + op.length, op.start_addr, 0>>
             /\ op.nread = 1
             /\ ~Contains(op.line, CMD_ERR_MSG)
                   => op.values = Samples(wram, op.start_addr, op.length)

C15_Witness ==
    /\ op.name = "read_wave_table"
    /\ op.start_addr = 1
    /\ op.length = C_LENGTH_WAVEFORM - 1
    /\ Len(op.values) = C_LENGTH_WAVEFORM - 1
    /\ op.values[1] = <<B - 2, 0, 0>>
    /\ Len(tx) = 1

\* C16: clear_ram_defn writes 0 once to each of the 4*C_NUM_WAVEFORM
\* pulse-definition registers and clear_wave_table writes 0 once to each of
\* the C_LENGTH_WAVEFORM/2 waveform registers; after clear_ram_defn every slot
\* is empty and a definition written next with the entry left to the scan
\* lands in slot 0; after clear_wave_table every sample read next is 0.
C16_Clears ==
    [][ /\ op'.name = "clear_ram_defn"
            => /\ Len(tx') = 4 * C_NUM_WAVEFORM
               /\ \A i \in 1..Len(tx') :
                     tx'[i].cmd = CMD_PDEFN_WR /\ Carried(tx'[i]) = <<0, 0, i - 1>>
               /\ \A r \in PdefRegs :
                     Cardinality({i \in 1..Len(tx') : Carried(tx'[i])[3] = r}) = 1
               /\ EmptySlots(pdef') = 0..(C_NUM_WAVEFORM - 1)
        /\ op'.name = "clear_wave_table"
            => /\ Len(tx') = C_LENGTH_WAVEFORM \div 2
               /\ \A i \in 1..Len(tx') :
                     tx'[i].cmd = CMD_WAVERAM_WR /\ Carried(tx'[i]) = <<0, 0, i - 1>>
               /\ \A r \in WramRegs :
                     Cardinality({i \in 1..Len(tx') : Carried(tx'[i])[3] = r}) = 1
               /\ \A r \in WramRegs : wram'[r] = Zero3
        /\ (op.name = "clear_ram_defn" /\ op'.name = "entry_pulse_defn" /\ op'.auto)
            => op'.n_entry = 0
        /\ (op.name = "clear_wave_table" /\ op'.name = "read_wave_table")
            => op'.values = [a \in 1..C_LENGTH_WAVEFORM |-> Zero3] ]_vars

\* Both memories were full: slot 0 written by the scan after the clear, and
\* the waveform memory cleared
C16_Witness ==
    /\ op.name = "entry_pulse_defn"
    /\ op.auto
    /\ op.n_entry = 0
    /\ EmptySlots(pdef) = 1..(C_NUM_WAVEFORM - 1)
    /\ \A r \in WramRegs : wram[r] = Zero3

\* A field of the definition exceeds its register width
Exceeds(o) ==
    \/ o.n_start_time > 2^24 - 1
    \/ Fix(o.n_scale_gain, BIT_FRAC_GAIN) > 2^16 - 1
    \/ Fix(o.n_scale_addr, BIT_FRAC) > 2^16 - 1
    \/ o.n_flattop > 2^17 - 1

\* The value written for a field: x cut to `bits` bits when it exceeds them,
\* x itself when it fits
Cut(x, bits) == IF x > 2^bits - 1 THEN x % (2^bits) ELSE x

\* C17: when the start time exceeds 24 bits, the scaled gain or the scaled
\* time factor 16 bits, or the sustain 17 bits, entry_pulse_defn still writes
\* its four registers: a field that exceeds its width is cut to it and a
\* field that fits is written as it is.
C17_Truncated ==
    (op.name = "entry_pulse_defn" /\ Exceeds(op)) =>
        LET w == PdefWrites(tx)
            e == op.n_entry
            t == IF e = 0 /\ op.n_start_time < PULSE_START_MIN
                 THEN PULSE_START_MIN ELSE op.n_start_time
            g == Fix(op.n_scale_gain, BIT_FRAC_GAIN)
            a == Fix(op.n_scale_addr, BIT_FRAC)
            s == op.n_flattop
        IN  /\ ~op.raised
            /\ Len(w) = 4
            /\ \A k \in 1..4 : Carried(w[k])[3] = 4 * e + k - 1
            /\ t >= 0 =>
                  Carried(w[1]) = <<Cut(t, 24) % B, Cut(t, 24) \div B, 4 * e>>
            /\ Carried(w[2]) = <<op.n_wave[1], op.n_wave[2], 4 * e + 1>>
            /\ g >= 0 => Carried(w[3])[2] = Cut(g, 16)
            /\ a >= 0 => Carried(w[3])[1] = Cut(a, 16)
            /\ s >= 0 =>
                  Carried(w[4]) = <<Cut(s, 17) % B, Cut(s, 17) \div B, 4 * e + 3>>

\* Every field exceeds its width
C17_Witness ==
    /\ op.name = "entry_pulse_defn"
    /\ op.n_start_time = 2^24 + 3
    /\ op.n_scale_gain = F(5, 1)
    /\ op.n_scale_addr = F(256, 0)
    /\ op.n_flattop = 2^17 + 1
    /\ Carried(PdefWrites(tx)[1]) = <<3, 0, 4 * op.n_entry>>
    /\ Carried(PdefWrites(tx)[3]) = <<0, 16384, 4 * op.n_entry + 2>>
    /\ Carried(PdefWrites(tx)[4]) = <<1, 0, 4 * op.n_entry + 3>>

\* The set bits of all the masks of a response
SetBits(erros) ==
    {<<k, j>> \in (1..Len(erros)) \X (0..(C_MAX_CHANNELS - 1)) :
        (erros[k][2][(j \div 16) + 1] \div 2^(j % 16)) % 2 = 1}

\* C18 (as amended): read_errs returns nothing; the count of violations it
\* logs is the number of set bits over all the masks of the response, and is
\* 0 exactly when every mask is zero.
C18_CountLogged ==
    op.name = "read_errs" =>
        /\ op.ret = None
        /\ op.cnt_err = Cardinality(SetBits(op.erros))
        /\ (op.cnt_err = 0) = (\A k \in 1..Len(op.erros) : op.erros[k][2] = Zero3)

\* C18 (as claimed): read_errs returns the number of set bits over all the
\* masks of the response.
C18_Claim ==
    op.name = "read_errs" => op.ret = Cardinality(SetBits(op.erros))

C18_Witness ==
    /\ op.name = "read_errs"
    /\ op.erros = <<<<"X", <<B - 1, B - 1, 0>>>>, <<"Y", <<1, 2^15, 0>>>>>>
    /\ op.cnt_err = C_MAX_CHANNELS + 2

\* What a register write stands for on the link: the address mod 2^16, the
\* data mod 2^32 and the command
Masked(c) == <<c.addr % B, c.data[1], c.data[2], c.cmd>>

\* The bytes of a frame but the last, and the last
TextOf(bytes) == SubSeq(bytes, 1, Len(bytes) - 1)
CmdOf(bytes) == bytes[Len(bytes)]

\* C19: xil_out32 writes one frame, the decimal digits of
\* ((addr & 0xFFFF) << 32) | (data & 0xFFFFFFFF) followed by the command byte;
\* address mod 2^16, data mod 2^32 and command are read back from its bytes,
\* and no write that differs in one of them produces the same bytes.
C19_OneFrame ==
    op.name = "xil_out32" =>
        /\ Len(tx) = 1
        /\ LET b == Bytes(tx[1])
           IN  /\ CmdOf(b) = op.cmd
               /\ AllDigits(TextOf(b))
               /\ Len(TextOf(b)) > 1 => TextOf(b)[1] # "0"
               /\ ValRec(TextOf(b), Zero3) = <<op.data[1], op.data[2], op.addr % B>>
               /\ \A c \in OutCalls :
                     Masked(c) # Masked(op)
                         => Bytes(xil_out32(c.addr, c.data, c.cmd)) # b

\* Address and data past their widths: 0x10001 and 2^32 + 1
C19_Witness ==
    /\ op.name = "xil_out32"
    /\ op.addr = B + 1
    /\ op.data = <<1, 0, 1>>
    /\ Bytes(tx[1]) = <<"4", "2", "9", "4", "9", "6", "7", "2", "9", "7", op.cmd>>

\* C20: for an even start address s inside the instrument's waveform memory
\* and n samples, the id write_wave_table returns unpacks to (n, s) as
\* (id >> 16, id & 0xFFFF); the id add_wave records in the storage and
\* returns unpacks to the length and address of its write and is the id that
\* write returned, for a start address inside the memory.
C20_WaveId ==
    /\ (op.name = "write_wave_table" /\ op.start_addr % 2 = 0
        /\ op.start_addr >= 0 /\ op.start_addr < LengthWaveform)
          => /\ op.ret \div (2^16) = Len(op.values)
             /\ op.ret % (2^16) = op.start_addr
    /\ (op.name = "add_wave" /\ ~op.raised /\ op.start_addr < C_LENGTH_WAVEFORM)
          => /\ op.waveid \div (2^16) = Len(op.values)
             /\ op.waveid % (2^16) = op.start_addr
             /\ op.start_addr % 2 = 0
             /\ op.written = op.waveid
             /\ wavetables # <<>>
             /\ wavetables[Len(wavetables)] = op.waveid

\* Three samples written at the last even address of the memory
C20_Witness ==
    /\ op.name = "write_wave_table"
    /\ op.start_addr = LengthWaveform - 2
    /\ Len(op.values) = 3
    /\ op.ret = 3 * (2^16) + LengthWaveform - 2

\* The range of the converter: 2 * vref with the internal reference, vref
\* with the external one
EffectiveRange(vref, vref_type) ==
    IF vref_type = VREF_INTERNAL THEN F(2 * vref.num, vref.dexp) ELSE vref

\* C21: vdac_to_hex returns a code in 0 .. 2^DAC_BITS_RES - 1 for every
\* voltage, every reference voltage above 0 and both reference modes; a
\* voltage above the effective range gives 2^DAC_BITS_RES - 1 and a negative
\* voltage gives 0.
C21_DacCode ==
    op.name = "vdac_to_hex" =>
        LET range == EffectiveRange(op.vref, op.vref_type)
        IN  /\ op.dac_code \in 0..(2^DAC_BITS_RES - 1)
            /\ (op.voltage.num * (2^range.dexp) > range.num * (2^op.voltage.dexp))
                  => op.dac_code = 2^DAC_BITS_RES - 1
            /\ op.voltage.num < 0 => op.dac_code = 0

\* A call with 5.0 V on the 1.25 V internal reference has returned 4095
C21_Witness ==
    /\ op.name = "vdac_to_hex"
    /\ op.voltage = F(20, 2)
    /\ op.vref = F(5, 2)
    /\ op.vref_type = VREF_INTERNAL
    /\ op.dac_code = 2^DAC_BITS_RES - 1

\* C22: the table built for wave length N has N samples when N is even and
\* N + 1, the last one 0, when N is odd; no sample is negative; so its length
\* is even.
C22_Table ==
    op.name = "raw_table" =>
        LET N == op.wave_len
            t == op.raw_table
        IN  /\ Len(t) = IF N % 2 = 0 THEN N ELSE N + 1
            /\ N % 2 # 0 => t[N + 1] = 0
            /\ \A j \in 1..Len(t) : t[j] >= 0
            /\ Len(t) % 2 = 0

\* A table of odd length has been built from a polynomial that is negative
\* after the first sample
C22_Witness ==
    /\ op.name = "raw_table"
    /\ op.wave_len = 3
    /\ op.coefficents = <<F(0 - 1, 0)>>
    /\ op.raw_table = <<0, 0, 0, 0>>
    /\ poly_gen_numpy(1, [num |-> 1, den |-> 3], op.coefficents).num < 0

\* The decoding of slot e of memory `ram`
SlotConfig(ram, e) ==
    PulseConfig(Str(ram[4 * e]), Str(ram[4 * e + 1]), Str(ram[4 * e + 2]),
                Str(ram[4 * e + 3]))

\* C23 (as claimed): read_pulse_defn(n_entry, start) with 0 <= start and
\* start + n_entry <= C_NUM_WAVEFORM returns n_entry configurations, the i-th
\* the decoding of slot start + i, for start > 0 too.
C23_Claim ==
    (/\ op.name = "read_pulse_defn"
     /\ op.n_entry >= 1
     /\ op.start >= 0
     /\ op.start + op.n_entry <= C_NUM_WAVEFORM)
    => /\ ~op.raised
       /\ Len(op.configs) = op.n_entry
       /\ \A i \in 0..(op.n_entry - 1) :
             op.configs[i + 1] = SlotConfig(pdef, op.start + i)

ParseOps == {"xil_in32", "read_regs", "read_errs", "read_en",
             "read_wave_table", "read_pulse_defn"}

\* C24: xil_in32, read_regs, read_errs, read_en, read_wave_table and
\* read_pulse_defn send one query, and no line waits on the link when they
\* send it, whatever waited when they were called: what they read after it
\* answers their own query.
C24_Drained ==
    (op.name \in ParseOps /\ tx # <<>>) =>
        /\ Len(tx) = 1
        /\ pend = <<FALSE>>
        /\ ~rx

\* A read of the enabled channels, called while the answer to an earlier
\* write waited unread, has sent its query on a silent link
C24_Witness ==
    /\ op.name = "read_en"
    /\ op.flushed
    /\ op.channels = <<1, 3, 31>>
    /\ tx = <<Frame(<<>>, CMD_REG_DUMP)>>
    /\ pend = <<FALSE>>

\* The addresses a stored wave id stands for: len samples from the start
\* address, and the pad after an odd number of them
IdRange(id) ==
    LET st == id % (2^16)
        n == id \div (2^16)
    IN  st..(st + n + (n % 2) - 1)

\* The sample addresses the waveform-RAM writes among `frames` write
Written(frames) ==
    UNION {{2 * Carried(WaveWrites(frames)[k])[3],
            2 * Carried(WaveWrites(frames)[k])[3] + 1} :
              k \in 1..Len(WaveWrites(frames))}

\* C25: every add_wave with keep_previous=True that allocates starts at an
\* even address, writes exactly the addresses of its id (the pad of an odd
\* length included), all below C_LENGTH_WAVEFORM and none of them in the
\* range of a wave the storage already holds; a call whose wave does not fit
\* after the last stored wave raises and changes neither the waveform RAM
\* nor the storage, and sends no waveform-RAM write.
C25_Allocation ==
    [][ (op'.name = "add_wave" /\ op'.keep_previous /\ wavetables # <<>>)
        => LET last == wavetables[Len(wavetables)]
               next == (last % (2^16)) + (last \div (2^16))
               fits == next + (next % 2) + Len(op'.values) <= C_LENGTH_WAVEFORM
           IN  IF fits
               THEN /\ ~op'.raised
                    /\ op'.start_addr % 2 = 0
                    /\ wavetables' = Append(wavetables, op'.waveid)
                    /\ Written(tx') = IdRange(op'.waveid)
                    /\ Written(tx') \subseteq 0..(C_LENGTH_WAVEFORM - 1)
                    /\ \A i \in 1..Len(wavetables) :
                          Written(tx') \cap IdRange(wavetables[i]) = {}
               ELSE /\ op'.raised
                    /\ wram' = wram
                    /\ wavetables' = wavetables
                    /\ WaveWrites(tx') = <<>>
      ]_vars

\* A wave has been added after a wave of three samples and its pad, and a
\* further one did not fit
C25_Witness ==
    /\ op.name = "add_wave"
    /\ op.keep_previous
    /\ op.raised
    /\ Len(wavetables) = 2
    /\ wavetables[1] = 3 * (2^16)
    /\ wavetables[2] = 2 * (2^16) + 4
    /\ wram[2] = <<1, 2, 0>>

\* The mask with exactly the bits of S set, on limbs
MaskOf(S) ==
    [l \in 1..3 |-> SumBits({i \in S : i \div 16 = l - 1})]

\* C27 (as claimed): chan_en sends the mask whose set bits are the
\* requested channels in 0 .. C_MAX_CHANNELS - 1, a number below 2^32, and
\* sends no byte when no requested channel is in that range.
C27_Claim ==
    op.name = "chan_en" =>
        LET valid == {op.channels[k] : k \in 1..Len(op.channels)}
                        \cap 0..(C_MAX_CHANNELS - 1)
        IN  IF valid = {} THEN tx = <<>>
            ELSE /\ tx = <<Frame(Str(MaskOf(valid)), CMD_PULSE_CHEN)>>
                 /\ Val(tx[1].text)[3] = 0

\* Two floats are the same number
SameFloat(x, y) ==
    LET e == IF x.dexp >= y.dexp THEN x.dexp ELSE y.dexp
    IN  x.num * (2^(e - x.dexp)) = y.num * (2^(e - y.dexp))

\* The i-th definition (from 1) of a list is in range
DefnInRange(c, i) ==
    /\ c.start_time >= 0 /\ c.start_time <= 2^24 - 1
    /\ i = 1 => c.start_time >= PULSE_START_MIN
    /\ c.wave_id[3] = 0
    /\ c.scale_gain.num >= 0 /\ c.scale_gain.num <= 2^c.scale_gain.dexp
    /\ c.scale_addr.num >= 0
    /\ Fix(c.scale_addr, BIT_FRAC) <= 2^16 - 1
    /\ c.sustain >= 0 /\ c.sustain <= 2^17 - 1

DefnsInRange(defs) == \A i \in 1..Len(defs) : DefnInRange(defs[i], i)

AllZero(c) ==
    /\ c.wave_id = Zero3
    /\ c.start_time = 0
    /\ c.scale_gain.num = 0
    /\ c.scale_addr.num = 0
    /\ c.sustain = 0

\* A definition as the registers hold it: both scale fields truncated to
\* their fixed-point step
Held(c) ==
    [wave_id |-> c.wave_id, start_time |-> c.start_time,
     scale_gain |-> F(Fix(c.scale_gain, BIT_FRAC_GAIN), BIT_FRAC_GAIN),
     scale_addr |-> F(Fix(c.scale_addr, BIT_FRAC), BIT_FRAC),
     sustain |-> c.sustain]

\* C26 (as claimed): get_defns after set_defns on the same channel returns
\* the definitions set, in their order, when none of them is all-zero, the
\* fields are in range and the first start time is at least PULSE_START_MIN.
C26_Claim ==
    [][ (/\ op.name = "set_defns"
         /\ op'.name = "get_defns"
         /\ op'.channel = op.channel
         /\ DefnsInRange(op.definitions)
         /\ \A i \in 1..Len(op.definitions) : ~AllZero(op.definitions[i]))
        => /\ ~op'.raised
           /\ Len(op'.pulse_defn) = Len(op.definitions)
           /\ \A i \in 1..Len(op.definitions) :
                 LET c == op'.pulse_defn[i]
                     d == op.definitions[i]
                 IN  /\ c.wave_id = d.wave_id
                     /\ c.start_time = d.start_time
                     /\ SameFloat(c.scale_gain, d.scale_gain)
                     /\ SameFloat(c.scale_addr, d.scale_addr)
                     /\ c.sustain = d.sustain
      ]_vars

\* C26 (as amended): set_defns leaves definition i in slot i as the
\* registers hold it, scale_gain truncated to a multiple of 2^-BIT_FRAC_GAIN
\* and scale_addr to a multiple of 2^-BIT_FRAC, and every other slot empty;
\* get_defns on the same channel returns these, in order, up to and not
\* including the first that is all-zero after the truncation, for fields in
\* range and a first start time of at least PULSE_START_MIN.
C26_RoundTrip ==
    [][ (/\ op.name = "set_defns"
         /\ op'.name = "get_defns"
         /\ op'.channel = op.channel
         /\ DefnsInRange(op.definitions))
        => LET held == [i \in 1..Len(op.definitions) |-> Held(op.definitions[i])]
               zero == {i \in 1..Len(held) : AllZero(held[i])}
               n == IF zero = {} THEN Len(held)
                    ELSE (CHOOSE i \in zero : \A k \in zero : i <= k) - 1
           IN  /\ ~op'.raised
               /\ op'.pulse_defn = SubSeq(held, 1, n)
               /\ \A e \in Len(held)..(C_NUM_WAVEFORM - 1) :
                     \A r \in 0..3 : pdef[4 * e + r] = Zero3
      ]_vars

\* get_defns has returned two definitions set on a memory that was full, the
\* first with both scale fields truncated, and stopped before a third that
\* truncates to all-zero
C26_Witness ==
    /\ op.name = "get_defns"
    /\ ~op.raised
    /\ op.pulse_defn =
          << [wave_id |-> <<2, 3, 0>>, start_time |-> PULSE_START_MIN,
              scale_gain |-> F(24576, BIT_FRAC_GAIN),
              scale_addr |-> F(257, BIT_FRAC), sustain |-> 0],
             [wave_id |-> <<B - 1, B - 1, 0>>, start_time |-> 3,
              scale_gain |-> F(16384, BIT_FRAC_GAIN),
              scale_addr |-> F(384, BIT_FRAC), sustain |-> 2^17 - 1] >>
    /\ \A r \in 8..11 : pdef[r] = Zero3

=============================================================================
